---- MODULE Spec2Model ----
(***************************************************************************)
(* A model of the raw-source sync engine (RawSyncService) and of the RAG   *)
(* evaluation orchestrator (RagEvaluationService) of wegent-evaluate.      *)
(*                                                                         *)
(* Spec      : the sync engine: run_hourly_sync (incremental) and          *)
(*             run_daily_sync (recompute), one run at a time, every        *)
(*             awaited database operation able to raise.                   *)
(* SpecEval  : the evaluation orchestrator over a populated reference      *)
(*             store: trigger_evaluation, execute_evaluation (row by row). *)
(***************************************************************************)
EXTENDS Integers, Sequences, FiniteSets, TLC

\* ------------------------------------------------------------------ bounds
MaxRaw  == 2      \* rows the raw source ever receives
MaxRuns == 2      \* sync runs (hourly or daily) started in one behaviour
MaxFail == 1      \* exceptions raised by database operations in one behaviour
limit   == 2      \* page size of fetch_incremental_records (1000 in the code)

\* --------------------------------------------------------------- constants
RAG_RETRIEVAL      == "rag_retrieval"
DIRECT_INJECTION   == "direct_injection"
SELECTED_DOCUMENTS == "selected_documents"
UNKNOWN            == "unknown"

PENDING   == "pending"
COMPLETED == "completed"
FAILED    == "failed"
SKIPPED   == "skipped"

NullId   == -1            \* SQL NULL / Python None in an integer column
NullStr  == "null"        \* SQL NULL / Python None in a string column
NullDate == 0             \* SQL NULL in a date column
Unbound  == -2            \* a Python local that was never assigned

Dates == {1, 2}
NoTime == [date |-> NullDate, hour |-> 0]        \* created_at IS NULL

\* type_data payloads of subtask_contexts rows (JSON); present = FALSE is a
\* missing / empty payload.  rag_result is "object" when the key is absent or
\* holds an object (injection_mode is "" when that object has no such key) and
\* "null" when the key holds JSON null.  query and chunks are the keys of
\* rag_result the evaluation reads ("" and <<>> when absent); a chunk is its
\* text, "" for a chunk without one.
NoPayload == [present |-> FALSE, rag_result |-> "object", injection_mode |-> "",
              knowledge_id |-> NullId, knowledge_base_id |-> NullId,
              query |-> "", chunks |-> <<>>]
Payload(mode, kid, kbid) == [present |-> TRUE, rag_result |-> "object",
                             injection_mode |-> mode,
                             knowledge_id |-> kid, knowledge_base_id |-> kbid,
                             query |-> "", chunks |-> <<>>]
NullRagResult(kid, kbid) == [present |-> TRUE, rag_result |-> "null",
                             injection_mode |-> "",
                             knowledge_id |-> kid, knowledge_base_id |-> kbid,
                             query |-> "", chunks |-> <<>>]
RagPayload(kid, query, chunks) == [present |-> TRUE, rag_result |-> "object",
                                   injection_mode |-> "rag_retrieval",
                                   knowledge_id |-> kid, knowledge_base_id |-> NullId,
                                   query |-> query, chunks |-> chunks]

\* The rows the raw source may receive (without their id).
RowTemplates ==
  { [subtask_id |-> 1, user_id |-> 1, context_type |-> "knowledge_base",
     type_data |-> Payload("rag_retrieval", 7, NullId),
     created_at |-> [date |-> 1, hour |-> 10]],
    [subtask_id |-> 1, user_id |-> 2, context_type |-> "selected_documents",
     type_data |-> Payload("", NullId, 9),
     created_at |-> [date |-> 1, hour |-> 10]],
    [subtask_id |-> 1, user_id |-> 1, context_type |-> "knowledge_base",
     type_data |-> Payload("direct_injection", 7, NullId),
     created_at |-> [date |-> 1, hour |-> 11]],
    [subtask_id |-> 1, user_id |-> 2, context_type |-> "knowledge_base",
     type_data |-> Payload("hybrid", 7, NullId),
     created_at |-> [date |-> 2, hour |-> 10]],
    [subtask_id |-> 1, user_id |-> 1, context_type |-> "knowledge_base",
     type_data |-> NoPayload,
     created_at |-> [date |-> 2, hour |-> 10]],
    [subtask_id |-> 1, user_id |-> 1, context_type |-> "attachment",
     type_data |-> NoPayload,
     created_at |-> [date |-> 1, hour |-> 10]] }

VARIABLES
  configured,   \* settings.RAW_DATABASE_URL is set
  raw,          \* subtask_contexts of the raw source: sequence, id = index
  ckpt,         \* sync_checkpoints: sync_type -> row
  refs,         \* rag_record_refs: sequence, id = index
  daily,        \* daily_stats: date -> row
  hourly,       \* hourly_stats: <<date, hour>> -> row
  kbdaily,      \* kb_daily_stats: <<date, knowledge_id>> -> row
  pc,           \* position of the sync run in progress
  last_raw_id,  \* run_hourly_sync local
  records,      \* run_hourly_sync local: the fetched batch
  inserted,     \* run_hourly_sync local
  skipped,      \* run_hourly_sync local
  todoH,        \* (date, hour) groups still to be written
  todoD,        \* dates still to be written
  target_date,  \* run_daily_sync argument
  result,       \* what the finished run returned
  pre,          \* the stores as they were when the run in progress started
  nfail,        \* exceptions raised so far
  nruns,        \* runs started so far
  results,      \* evaluation_results: sequence, id = index
  jobs,         \* rag_evaluation_jobs: job_id -> ledger entry
  run,          \* job_id -> position of its execute_evaluation task
  lastRow,      \* the row execute_evaluation handled last and how it ended
  reply,        \* what a call made with a job id answered, until it is delivered
  syncs         \* overlapping run_hourly_sync executions: id -> locals

syncVars == <<configured, raw, ckpt, refs, daily, hourly, kbdaily, pc, last_raw_id,
              records, inserted, skipped, todoH, todoD, target_date, result, pre,
              nfail, nruns>>

evalVars == <<results, jobs, run, lastRow, reply>>

vars == <<syncVars, evalVars, syncs>>

\* ScorerPool: the five evaluators awaited by asyncio.gather
Scorers == {"ragas", "ragas_emb", "ragas_llm", "trulens_emb", "trulens_llm"}
NoOutcome == [s \in Scorers |-> "none"]
NoLast == [job |-> 0, id |-> 0, outcome |-> "none", step |-> "none", ret |-> NoOutcome]
NoBody == [status |-> "none", total |-> NullId, completed |-> NullId,
           failed |-> NullId, skipped |-> NullId]
NoReply == [call |-> "none", job_id |-> 0, code |-> 0, body |-> NoBody]

MaxOverlap == 2   \* run_hourly_sync executions that may overlap
SyncIds == 1..MaxOverlap
\* the arguments of an update_checkpoint call
NoWrite == [raw_id |-> NullId, status |-> "none", records_synced |-> 0,
            error_message |-> NullStr]
\* the locals of one execution; seen is the last_raw_id of the checkpoint
\* object its session holds (NullId: none), handler whether it is in its
\* except clause
NoSync == [pc |-> "idle", last_raw_id |-> Unbound, records |-> <<>>, fresh |-> <<>>,
           inserted |-> 0, seen |-> NullId, write |-> NoWrite, handler |-> FALSE]

\* ------------------------------------------------------ ClassificationRules
\* line 40: rag_result.get(...) on None raises AttributeError
Raised == "AttributeError"

get_rag_mode(context_type, type_data) ==
  IF context_type = "selected_documents" THEN SELECTED_DOCUMENTS
  ELSE IF type_data.present /\ type_data.rag_result = "null" THEN Raised
  ELSE LET injection_mode == IF type_data.present THEN type_data.injection_mode ELSE ""
       IN  IF injection_mode = "rag_retrieval" THEN RAG_RETRIEVAL
           ELSE IF injection_mode = "direct_injection" THEN DIRECT_INJECTION
           ELSE UNKNOWN

get_knowledge_id(context_type, type_data) ==
  IF ~type_data.present THEN NullId
  ELSE IF context_type = "selected_documents" THEN type_data.knowledge_base_id
  ELSE type_data.knowledge_id

\* Python truthiness of an optional integer (`if kb_id:`)
Truthy(n) == n # NullId /\ n # 0

\* ------------------------------------------------------------ table helpers
EmptyTable == [x \in {} |-> 0]
Upsert(t, k, v) == [x \in (DOMAIN t) \cup {k} |-> IF x = k THEN v ELSE t[x]]
Min(a, b) == IF a < b THEN a ELSE b

RECURSIVE MaxId(_)
MaxId(recs) ==
  IF Len(recs) = 1 THEN recs[1].id
  ELSE LET m == MaxId(Tail(recs)) IN IF recs[1].id > m THEN recs[1].id ELSE m

\* the distinct elements of a sequence, in order of first appearance
\* (iteration order of a Python dict filled while looping over the sequence)
RECURSIVE DistinctInOrder(_)
DistinctInOrder(s) ==
  IF s = <<>> THEN <<>>
  ELSE LET p == DistinctInOrder(SubSeq(s, 1, Len(s) - 1))
           x == s[Len(s)]
       IN  IF \E i \in 1..Len(p) : p[i] = x THEN p ELSE Append(p, x)

\* ---------------------------------------------------------- CheckpointStore
NoError == ""
SomeError == "error"

get_checkpoint(ck, sync_type) ==
  IF sync_type \in DOMAIN ck THEN ck[sync_type].last_raw_id ELSE 0

update_checkpoint(ck, sync_type, raw_id, status, records_synced, error_message) ==
  Upsert(ck, sync_type, [last_raw_id |-> raw_id, status |-> status,
                         records_synced |-> records_synced,
                         error_message |-> error_message])

\* ---------------------------------------------------------- RawSourceReader
Eligible(r) ==
  /\ r.context_type \in {"knowledge_base", "selected_documents"}
  /\ r.subtask_id > 0

\* mutant: the page is taken from the highest ids downwards
fetch_incremental_records_Descending(rawrows, last) ==
  LET sel == SelectSeq(rawrows, LAMBDA r : r.id > last /\ Eligible(r))
  IN  [i \in 1..Min(limit, Len(sel)) |-> sel[Len(sel) + 1 - i]]

\* mutant: the query loses the first row of its result
fetch_incremental_records_DropsFirst(rawrows, last) ==
  LET sel == SelectSeq(rawrows, LAMBDA r : r.id > last /\ Eligible(r))
  IN  IF sel = <<>> THEN sel ELSE SubSeq(sel, 2, Min(limit + 1, Len(sel)))

fetch_incremental_records(rawrows, last) ==
  LET sel == SelectSeq(rawrows, LAMBDA r : r.id > last /\ Eligible(r))
  IN  SubSeq(sel, 1, Min(limit, Len(sel)))

\* ----------------------------------------------------------- ReferenceStore
HasTime(r) == r.created_at # NoTime

NewRef(r) ==
  LET rag_mode == get_rag_mode(r.context_type, r.type_data)
      kb_id    == get_knowledge_id(r.context_type, r.type_data)
  IN  [raw_id |-> r.id,
       knowledge_id |-> kb_id,
       context_type |-> r.context_type,
       injection_mode |-> IF rag_mode # UNKNOWN THEN rag_mode ELSE NullStr,
       record_date |-> IF HasTime(r) THEN r.created_at.date ELSE NullDate,
       evaluation_status |-> PENDING,
       evaluation_result_id |-> NullId]

\* mutant: the existence check never finds the row
Exists_Never(rs, raw_id) == FALSE

Exists(rs, raw_id) == \E i \in 1..Len(rs) : rs[i].raw_id = raw_id

\* the reference store after sync_records has looped over recs
RECURSIVE sync_records(_, _)
sync_records(rs, recs) ==
  IF recs = <<>> THEN rs
  ELSE IF Exists(rs, Head(recs).id) THEN sync_records(rs, Tail(recs))
  ELSE sync_records(Append(rs, NewRef(Head(recs))), Tail(recs))

\* ----------------------------------------------------------- AggregateStore
CountMode(recs, mode) ==
  Cardinality({i \in 1..Len(recs) :
                 get_rag_mode(recs[i].context_type, recs[i].type_data) = mode})

KbIdsOf(recs) ==
  LET ids == [i \in 1..Len(recs) |->
                get_knowledge_id(recs[i].context_type, recs[i].type_data)]
  IN  DistinctInOrder(SelectSeq(ids, Truthy))

UserIdsOf(recs) == {recs[i].user_id : i \in {j \in 1..Len(recs) : recs[j].user_id # 0}}

Range(s) == {s[i] : i \in 1..Len(s)}

\* mutant: the hourly total counts every record of the group, classified or not
update_hourly_stats_CountsUnknown(h, target, hour, recs) ==
  LET rag == CountMode(recs, RAG_RETRIEVAL)
      dir == CountMode(recs, DIRECT_INJECTION)
      sel == CountMode(recs, SELECTED_DOCUMENTS)
  IN  Upsert(h, <<target, hour>>,
             [total_queries |-> Len(recs),
              rag_retrieval_count |-> rag,
              direct_injection_count |-> dir,
              selected_documents_count |-> sel])

update_hourly_stats(h, target, hour, recs) ==
  LET rag == CountMode(recs, RAG_RETRIEVAL)
      dir == CountMode(recs, DIRECT_INJECTION)
      sel == CountMode(recs, SELECTED_DOCUMENTS)
  IN  Upsert(h, <<target, hour>>,
             [total_queries |-> rag + dir + sel,
              rag_retrieval_count |-> rag,
              direct_injection_count |-> dir,
              selected_documents_count |-> sel])

\* mutant: the upsert replaces the stored counts by those of the batch
update_daily_stats_Overwrites(d, target, recs) ==
  LET rag == CountMode(recs, RAG_RETRIEVAL)
      dir == CountMode(recs, DIRECT_INJECTION)
      sel == CountMode(recs, SELECTED_DOCUMENTS)
  IN  Upsert(d, target,
        [total_queries |-> rag + dir + sel,
         rag_retrieval_count |-> rag,
         direct_injection_count |-> dir,
         selected_documents_count |-> sel,
         active_kb_count |-> Cardinality(Range(KbIdsOf(recs))),
         active_user_count |-> Cardinality(UserIdsOf(recs))])

update_daily_stats(d, target, recs) ==
  LET rag == CountMode(recs, RAG_RETRIEVAL)
      dir == CountMode(recs, DIRECT_INJECTION)
      sel == CountMode(recs, SELECTED_DOCUMENTS)
      total == rag + dir + sel
      kbs == Cardinality(Range(KbIdsOf(recs)))
      users == Cardinality(UserIdsOf(recs))
  IN  IF target \in DOMAIN d
      THEN Upsert(d, target,
             [total_queries |-> d[target].total_queries + total,
              rag_retrieval_count |-> d[target].rag_retrieval_count + rag,
              direct_injection_count |-> d[target].direct_injection_count + dir,
              selected_documents_count |-> d[target].selected_documents_count + sel,
              active_kb_count |-> kbs,
              active_user_count |-> users])
      ELSE Upsert(d, target,
             [total_queries |-> total,
              rag_retrieval_count |-> rag,
              direct_injection_count |-> dir,
              selected_documents_count |-> sel,
              active_kb_count |-> kbs,
              active_user_count |-> users])

\* the upserts of update_kb_daily_stats for the knowledge bases in kbs
update_kb_daily_stats(k, target, recs, kbs) ==
  LET of(kb) == SelectSeq(recs, LAMBDA r :
                  get_knowledge_id(r.context_type, r.type_data) = kb)
      rag(kb) == CountMode(of(kb), RAG_RETRIEVAL)
      dir(kb) == CountMode(of(kb), DIRECT_INJECTION)
      sel(kb) == CountMode(of(kb), SELECTED_DOCUMENTS)
      keys == {<<target, kb>> : kb \in kbs}
  IN  [x \in (DOMAIN k) \cup keys |->
         IF x \notin keys THEN k[x]
         ELSE IF x \in DOMAIN k
         THEN [k[x] EXCEPT
                 !.total_queries = @ + rag(x[2]) + dir(x[2]) + sel(x[2]),
                 !.rag_retrieval_count = @ + rag(x[2]),
                 !.direct_injection_count = @ + dir(x[2]),
                 !.selected_documents_count = @ + sel(x[2])]
         ELSE [knowledge_name |-> NullStr, namespace |-> NullStr,
               total_queries |-> rag(x[2]) + dir(x[2]) + sel(x[2]),
               rag_retrieval_count |-> rag(x[2]),
               direct_injection_count |-> dir(x[2]),
               selected_documents_count |-> sel(x[2])]]

\* mutant: the recompute adds to the stored row instead of overwriting it
recalculate_daily_stats_additive(d, rs, target) ==
  LET on == {i \in 1..Len(rs) : rs[i].record_date = target}
      old(f) == IF target \in DOMAIN d THEN d[target][f] ELSE 0
  IN  Upsert(d, target,
        [total_queries |-> old("total_queries") + Cardinality(on),
         rag_retrieval_count |-> old("rag_retrieval_count")
            + Cardinality({i \in on : rs[i].injection_mode = RAG_RETRIEVAL}),
         direct_injection_count |-> old("direct_injection_count")
            + Cardinality({i \in on : rs[i].injection_mode = DIRECT_INJECTION}),
         selected_documents_count |-> old("selected_documents_count")
            + Cardinality({i \in on : rs[i].context_type = "selected_documents"}),
         active_kb_count |-> Cardinality({rs[i].knowledge_id : i \in on} \ {NullId}),
         active_user_count |-> old("active_user_count")])

\* recalculate_daily_stats: one aggregate query over rag_record_refs, then an
\* upsert that overwrites
RefsOn(rs, target) == {i \in 1..Len(rs) : rs[i].record_date = target}

recalculate_daily_stats(d, rs, target) ==
  LET on == RefsOn(rs, target)
      total == Cardinality(on)
      rag == Cardinality({i \in on : rs[i].injection_mode = RAG_RETRIEVAL})
      dir == Cardinality({i \in on : rs[i].injection_mode = DIRECT_INJECTION})
      sel == Cardinality({i \in on : rs[i].context_type = "selected_documents"})
      kbs == Cardinality({rs[i].knowledge_id : i \in on} \ {NullId})
  IN  Upsert(d, target,
        [total_queries |-> total,
         rag_retrieval_count |-> rag,
         direct_injection_count |-> dir,
         selected_documents_count |-> sel,
         active_kb_count |-> kbs,
         active_user_count |-> IF target \in DOMAIN d
                               THEN d[target].active_user_count ELSE 0])

\* the raw source's kinds table (KnowledgeBase entries): id -> display name and
\* namespace as refresh_kb_names extracts them; knowledge base 9 has no entry
Kinds == [x \in {7} |-> [name |-> "kb-seven", namespace |-> "default"]]

\* mutant: the names are refreshed on the rows of every date
refresh_kb_names_EveryDate(k, target) ==
  [x \in DOMAIN k |->
     IF x[2] \in DOMAIN Kinds
     THEN [k[x] EXCEPT !.knowledge_name = Kinds[x[2]].name,
                       !.namespace = Kinds[x[2]].namespace]
     ELSE k[x]]

refresh_kb_names(k, target) ==
  [x \in DOMAIN k |->
     IF x[1] = target /\ x[2] \in DOMAIN Kinds
     THEN [k[x] EXCEPT !.knowledge_name = Kinds[x[2]].name,
                       !.namespace = Kinds[x[2]].namespace]
     ELSE k[x]]

\* ------------------------------------------------- raw-source read paths
\* task_manager.users: id -> user_name
Users == [x \in {1, 2} |-> IF x = 1 THEN "user-one" ELSE "user-two"]

\* Every read path tests is_raw_db_configured() before it opens a raw session
\* and returns its neutral value ([], {}, None) when the test fails.
FetchIncremental(cfg, rawrows, last) ==
  IF ~cfg THEN <<>> ELSE fetch_incremental_records(rawrows, last)

fetch_subtask_context_details(cfg, rawrows, raw_ids) ==
  IF raw_ids = {} \/ ~cfg THEN EmptyTable
  ELSE [id \in (raw_ids \ {NullId}) \cap (1..Len(rawrows)) |->
          [context_type |-> rawrows[id].context_type,
           type_data |-> rawrows[id].type_data,
           created_at |-> rawrows[id].created_at]]

fetch_extracted_text(cfg, rawrows, raw_id) ==
  IF ~cfg THEN NullStr
  ELSE IF raw_id \in 1..Len(rawrows) THEN rawrows[raw_id].extracted_text
  ELSE NullStr

fetch_kb_metas(cfg, kb_ids) ==
  IF kb_ids = {} \/ ~cfg THEN EmptyTable
  ELSE [kb \in (kb_ids \ {NullId}) \cap DOMAIN Kinds |->
          [knowledge_name |-> Kinds[kb].name, namespace |-> Kinds[kb].namespace]]

fetch_user_names(cfg, user_ids) ==
  IF user_ids = {} \/ ~cfg THEN EmptyTable
  ELSE [u \in (user_ids \ {NullId}) \cap DOMAIN Users |-> Users[u]]

\* =================================================================== SyncEngine
NoResult == [status |-> "none", records_synced |-> NullId,
             records_skipped |-> NullId, last_raw_id |-> NullId]
Result(status, synced, skip, last) ==
  [status |-> status, records_synced |-> synced, records_skipped |-> skip,
   last_raw_id |-> last]

Snapshot == [refs |-> refs, daily |-> daily, hourly |-> hourly, kbdaily |-> kbdaily,
             ckpt |-> ckpt, cursor |-> get_checkpoint(ckpt, "hourly")]
NoSnapshot == [refs |-> <<>>, daily |-> EmptyTable, hourly |-> EmptyTable,
               kbdaily |-> EmptyTable, ckpt |-> EmptyTable, cursor |-> 0]

HourKeysOf(recs) ==
  LET dated == SelectSeq(recs, HasTime)
  IN  DistinctInOrder([i \in 1..Len(dated) |->
                         <<dated[i].created_at.date, dated[i].created_at.hour>>])
DateKeysOf(recs) ==
  LET dated == SelectSeq(recs, HasTime)
  IN  DistinctInOrder([i \in 1..Len(dated) |-> dated[i].created_at.date])

InHour(recs, key) ==
  SelectSeq(recs, LAMBDA r : HasTime(r) /\ <<r.created_at.date, r.created_at.hour>> = key)
OnDate(recs, d) ==
  SelectSeq(recs, LAMBDA r : HasTime(r) /\ r.created_at.date = d)

Locals == <<last_raw_id, records, inserted, skipped, todoH, todoD, target_date>>
Stores == <<ckpt, refs, daily, hourly, kbdaily>>

CanRaise == nfail < MaxFail

\* An awaited operation raises.  The session either stays usable (the handler's
\* commit then also commits what the failed step had left pending) or is left
\* needing a rollback (the handler's own database call raises).
Raise(usable) ==
  /\ CanRaise
  /\ nfail' = nfail + 1
  /\ pc' = IF usable THEN "except" ELSE "broken"

\* the raw source receives a row (whether or not this service is configured
\* to read it)
AddRaw ==
  /\ pc = "idle"
  /\ Len(raw) < MaxRaw
  /\ \E t \in RowTemplates :
       raw' = Append(raw, [id |-> Len(raw) + 1, subtask_id |-> t.subtask_id,
                           user_id |-> t.user_id, context_type |-> t.context_type,
                           type_data |-> t.type_data, created_at |-> t.created_at,
                           extracted_text |-> "text"])
  /\ UNCHANGED <<configured, Stores, pc, Locals, result, pre, nfail, nruns>>
  /\ UNCHANGED <<evalVars, syncs>>

\* mutant: the run does not test the configuration and goes on to the fetch
HourlyStart_IgnoresConfig ==
  /\ pc = "idle"
  /\ nruns < MaxRuns
  /\ nruns' = nruns + 1
  /\ pre' = Snapshot
  /\ \/ /\ last_raw_id' = get_checkpoint(ckpt, "hourly")
        /\ pc' = "fetch"
        /\ UNCHANGED <<result, nfail>>
     \/ /\ Raise(TRUE)
        /\ last_raw_id' = Unbound
        /\ UNCHANGED result
  /\ UNCHANGED <<configured, raw, Stores, records, inserted, skipped, todoH, todoD,
                 target_date>>
  /\ UNCHANGED <<evalVars, syncs>>

\* run_hourly_sync, lines 394-400: the configuration check and get_checkpoint
HourlyBegin ==
  /\ pc = "idle"
  /\ pre' = Snapshot
  /\ \/ /\ ~configured
        /\ pc' = "ret"
        /\ result' = Result("skipped", NullId, NullId, NullId)
        /\ UNCHANGED <<last_raw_id, nfail>>
     \/ /\ configured
        /\ last_raw_id' = get_checkpoint(ckpt, "hourly")
        /\ pc' = "fetch"
        /\ UNCHANGED <<result, nfail>>
     \/ /\ configured
        /\ Raise(TRUE)
        /\ last_raw_id' = Unbound
        /\ UNCHANGED result
  /\ UNCHANGED <<configured, raw, Stores, records, inserted, skipped, todoH, todoD,
                 target_date>>
  /\ UNCHANGED <<evalVars, syncs>>

\* a run among the MaxRuns of a behaviour
HourlyStart ==
  /\ nruns < MaxRuns
  /\ nruns' = nruns + 1
  /\ HourlyBegin

\* line 403-410: fetch_incremental_records
Fetch ==
  /\ pc = "fetch"
  /\ \/ /\ records' = FetchIncremental(configured, raw, last_raw_id)
        /\ pc' = IF records' = <<>> THEN "noop" ELSE "sync"
        /\ UNCHANGED nfail
     \/ /\ \E usable \in BOOLEAN : Raise(usable)
        /\ UNCHANGED records
  /\ UNCHANGED <<configured, raw, Stores, last_raw_id, inserted, skipped, todoH, todoD,
                 target_date, result, pre, nruns>>
  /\ UNCHANGED <<evalVars, syncs>>

\* mutant: the no-op path records cursor 0 instead of the cursor it read
NoopCheckpoint_ResetsCursor ==
  /\ pc = "noop"
  /\ ckpt' = update_checkpoint(ckpt, "hourly", 0, "success", 0, NullStr)
  /\ result' = Result("success", 0, NullId, NullId)
  /\ pc' = "ret"
  /\ UNCHANGED <<configured, raw, refs, daily, hourly, kbdaily, Locals, pre, nruns,
                 nfail>>
  /\ UNCHANGED <<evalVars, syncs>>

\* lines 405-407: nothing fetched
NoopCheckpoint ==
  /\ pc = "noop"
  /\ \/ /\ ckpt' = update_checkpoint(ckpt, "hourly", last_raw_id, "success", 0, NullStr)
        /\ result' = Result("success", 0, NullId, NullId)
        /\ pc' = "ret"
        /\ UNCHANGED nfail
     \/ /\ \E usable \in BOOLEAN : Raise(usable)
        /\ UNCHANGED <<ckpt, result>>
  /\ UNCHANGED <<configured, raw, refs, daily, hourly, kbdaily, Locals, pre, nruns>>
  /\ UNCHANGED <<evalVars, syncs>>

\* mutant: a row delivered again is stored again, as a fresh row
SyncRecords_StoresAgain ==
  /\ pc = "sync"
  /\ \/ /\ refs' = [i \in 1..Len(sync_records(refs, records)) |->
                      IF \E k \in 1..Len(records) :
                           records[k].id = sync_records(refs, records)[i].raw_id
                      THEN [sync_records(refs, records)[i] EXCEPT
                              !.evaluation_status = PENDING,
                              !.evaluation_result_id = NullId]
                      ELSE sync_records(refs, records)[i]]
        /\ inserted' = Len(refs') - Len(refs)
        /\ skipped' = Len(records) - inserted'
        /\ todoH' = HourKeysOf(records)
        /\ todoD' = DateKeysOf(records)
        /\ pc' = IF todoH' # <<>> THEN "hourly" ELSE "ckpt"
        /\ UNCHANGED nfail
     \/ \* raised after k records were looped over: with a usable session the
        \* handler's commit persists the rows added so far
        /\ \E k \in 0..Len(records) :
             refs' = sync_records(refs, SubSeq(records, 1, k))
        /\ Raise(TRUE)
        /\ UNCHANGED <<inserted, skipped, todoH, todoD>>
     \/ /\ Raise(FALSE)
        /\ UNCHANGED <<refs, inserted, skipped, todoH, todoD>>
  /\ UNCHANGED <<configured, raw, ckpt, daily, hourly, kbdaily, last_raw_id, records,
                 target_date, result, pre, nruns>>
  /\ UNCHANGED <<evalVars, syncs>>

\* line 413: sync_records, and lines 415-437, the grouping (pure)
SyncRecords ==
  /\ pc = "sync"
  /\ \/ /\ refs' = sync_records(refs, records)
        /\ inserted' = Len(refs') - Len(refs)
        /\ skipped' = Len(records) - inserted'
        /\ todoH' = HourKeysOf(records)
        /\ todoD' = DateKeysOf(records)
        /\ pc' = IF todoH' # <<>> THEN "hourly" ELSE "ckpt"
        /\ UNCHANGED nfail
     \/ \* raised after k records were looped over: with a usable session the
        \* handler's commit persists the rows added so far
        /\ \E k \in 0..Len(records) :
             refs' = sync_records(refs, SubSeq(records, 1, k))
        /\ Raise(TRUE)
        /\ UNCHANGED <<inserted, skipped, todoH, todoD>>
     \/ /\ Raise(FALSE)
        /\ UNCHANGED <<refs, inserted, skipped, todoH, todoD>>
  /\ UNCHANGED <<configured, raw, ckpt, daily, hourly, kbdaily, last_raw_id, records,
                 target_date, result, pre, nruns>>
  /\ UNCHANGED <<evalVars, syncs>>

\* lines 427-428: one update_hourly_stats call
UpdateHourly ==
  /\ pc = "hourly"
  /\ \/ /\ hourly' = update_hourly_stats(hourly, todoH[1][1], todoH[1][2],
                                         InHour(records, todoH[1]))
        /\ todoH' = Tail(todoH)
        /\ pc' = IF todoH' # <<>> THEN "hourly" ELSE "daily"
        /\ UNCHANGED nfail
     \/ /\ \E usable \in BOOLEAN : Raise(usable)
        /\ UNCHANGED <<hourly, todoH>>
  /\ UNCHANGED <<configured, raw, ckpt, refs, daily, kbdaily, last_raw_id, records,
                 inserted, skipped, todoD, target_date, result, pre, nruns>>
  /\ UNCHANGED <<evalVars, syncs>>

\* line 440: one update_daily_stats call
UpdateDaily ==
  /\ pc = "daily"
  /\ \/ /\ daily' = update_daily_stats(daily, todoD[1], OnDate(records, todoD[1]))
        /\ pc' = "kb"
        /\ UNCHANGED nfail
     \/ /\ \E usable \in BOOLEAN : Raise(usable)
        /\ UNCHANGED daily
  /\ UNCHANGED <<configured, raw, ckpt, refs, hourly, kbdaily, Locals, result, pre,
                 nruns>>
  /\ UNCHANGED <<evalVars, syncs>>

\* line 441: one update_kb_daily_stats call
UpdateKbDaily ==
  /\ pc = "kb"
  /\ LET recs == OnDate(records, todoD[1])
         kbs == KbIdsOf(recs)
     IN  \/ /\ kbdaily' = update_kb_daily_stats(kbdaily, todoD[1], recs, Range(kbs))
            /\ todoD' = Tail(todoD)
            /\ pc' = IF todoD' # <<>> THEN "daily" ELSE "ckpt"
            /\ UNCHANGED nfail
         \/ \* raised after j upserts were executed, before the commit
            /\ \E j \in 0..Len(kbs) :
                 kbdaily' = update_kb_daily_stats(kbdaily, todoD[1], recs,
                                                  Range(SubSeq(kbs, 1, j)))
            /\ Raise(TRUE)
            /\ UNCHANGED todoD
         \/ /\ Raise(FALSE)
            /\ UNCHANGED <<kbdaily, todoD>>
  /\ UNCHANGED <<configured, raw, ckpt, refs, daily, hourly, last_raw_id, records,
                 inserted, skipped, todoH, target_date, result, pre, nruns>>
  /\ UNCHANGED <<evalVars, syncs>>

\* mutant: the success checkpoint keeps the cursor the run started from
SuccessCheckpoint_KeepsCursor ==
  /\ pc = "ckpt"
  /\ ckpt' = update_checkpoint(ckpt, "hourly", last_raw_id, "success", inserted, NullStr)
  /\ result' = Result("success", inserted, skipped, last_raw_id)
  /\ pc' = "ret"
  /\ UNCHANGED <<configured, raw, refs, daily, hourly, kbdaily, Locals, pre, nruns,
                 nfail>>
  /\ UNCHANGED <<evalVars, syncs>>

\* lines 409-410, 444-458: the success checkpoint and the return value
SuccessCheckpoint ==
  /\ pc = "ckpt"
  /\ \/ /\ LET max_raw_id == MaxId(records)
           IN  /\ ckpt' = update_checkpoint(ckpt, "hourly", max_raw_id, "success",
                                            inserted, NullStr)
               /\ result' = Result("success", inserted, skipped, max_raw_id)
        /\ pc' = "ret"
        /\ UNCHANGED nfail
     \/ /\ \E usable \in BOOLEAN : Raise(usable)
        /\ UNCHANGED <<ckpt, result>>
  /\ UNCHANGED <<configured, raw, refs, daily, hourly, kbdaily, Locals, pre, nruns>>
  /\ UNCHANGED <<evalVars, syncs>>

\* mutant: the failed checkpoint is written with cursor 0
HourlyExcept_ResetsCursor ==
  /\ pc = "except"
  /\ target_date = NullDate
  /\ pc' = "ret"
  /\ ckpt' = update_checkpoint(ckpt, "hourly", 0, "failed", 0, SomeError)
  /\ result' = Result("failed", NullId, NullId, NullId)
  /\ UNCHANGED <<configured, raw, refs, daily, hourly, kbdaily, Locals, pre, nfail,
                 nruns>>
  /\ UNCHANGED <<evalVars, syncs>>

\* lines 460-463: the except clause of run_hourly_sync
HourlyExcept ==
  /\ pc = "except"
  /\ target_date = NullDate
  /\ pc' = "ret"
  /\ \/ /\ last_raw_id # Unbound
        /\ ckpt' = update_checkpoint(ckpt, "hourly", last_raw_id, "failed", 0, SomeError)
        /\ result' = Result("failed", NullId, NullId, NullId)
     \/ \* last_raw_id was never assigned: the handler raises UnboundLocalError
        /\ last_raw_id = Unbound
        /\ result' = Result("raised", NullId, NullId, NullId)
        /\ UNCHANGED ckpt
  /\ UNCHANGED <<configured, raw, refs, daily, hourly, kbdaily, Locals, pre, nfail,
                 nruns>>
  /\ UNCHANGED <<evalVars, syncs>>

\* the handler's checkpoint write raises in its turn: the run ends by raising
HandlerRaises ==
  /\ pc = "broken"
  /\ pc' = "ret"
  /\ result' = Result("raised", NullId, NullId, NullId)
  /\ UNCHANGED <<configured, raw, Stores, Locals, pre, nfail, nruns>>
  /\ UNCHANGED <<evalVars, syncs>>

\* run_daily_sync, lines 474-478
DailyStart ==
  /\ pc = "idle"
  /\ nruns < MaxRuns
  /\ nruns' = nruns + 1
  /\ pre' = Snapshot
  /\ \/ /\ ~configured
        /\ pc' = "ret"
        /\ result' = Result("skipped", NullId, NullId, NullId)
        /\ UNCHANGED target_date
     \/ /\ configured
        /\ \E d \in Dates : target_date' = d
        /\ pc' = "recalc"
        /\ UNCHANGED result
  /\ UNCHANGED <<configured, raw, Stores, last_raw_id, records, inserted, skipped,
                 todoH, todoD, nfail>>
  /\ UNCHANGED <<evalVars, syncs>>

\* line 482: recalculate_daily_stats
Recalculate ==
  /\ pc = "recalc"
  /\ \/ /\ daily' = recalculate_daily_stats(daily, refs, target_date)
        /\ pc' = "refresh"
        /\ UNCHANGED nfail
     \/ /\ \E usable \in BOOLEAN : Raise(usable)
        /\ UNCHANGED daily
  /\ UNCHANGED <<configured, raw, ckpt, refs, hourly, kbdaily, Locals, result, pre,
                 nruns>>
  /\ UNCHANGED <<evalVars, syncs>>

\* line 485: refresh_kb_names
RefreshKbNames ==
  /\ pc = "refresh"
  /\ \/ /\ kbdaily' = refresh_kb_names(kbdaily, target_date)
        /\ pc' = "dckpt"
        /\ UNCHANGED nfail
     \/ /\ \E usable \in BOOLEAN : Raise(usable)
        /\ UNCHANGED kbdaily
  /\ UNCHANGED <<configured, raw, ckpt, refs, daily, hourly, Locals, result, pre,
                 nruns>>
  /\ UNCHANGED <<evalVars, syncs>>

\* lines 487-491
DailyCheckpoint ==
  /\ pc = "dckpt"
  /\ \/ /\ ckpt' = update_checkpoint(ckpt, "daily", 0, "success", 0, NullStr)
        /\ result' = Result("success", NullId, NullId, NullId)
        /\ pc' = "ret"
        /\ UNCHANGED nfail
     \/ /\ \E usable \in BOOLEAN : Raise(usable)
        /\ UNCHANGED <<ckpt, result>>
  /\ UNCHANGED <<configured, raw, refs, daily, hourly, kbdaily, Locals, pre, nruns>>
  /\ UNCHANGED <<evalVars, syncs>>

\* lines 493-496: the except clause of run_daily_sync
DailyExcept ==
  /\ pc = "except"
  /\ target_date # NullDate
  /\ pc' = "ret"
  /\ ckpt' = update_checkpoint(ckpt, "daily", 0, "failed", 0, SomeError)
  /\ result' = Result("failed", NullId, NullId, NullId)
  /\ UNCHANGED <<configured, raw, refs, daily, hourly, kbdaily, Locals, pre, nfail,
                 nruns>>
  /\ UNCHANGED <<evalVars, syncs>>

\* the caller has the result; the run's locals go away
Return ==
  /\ pc = "ret"
  /\ pc' = "idle"
  /\ result' = NoResult
  /\ pre' = NoSnapshot
  /\ last_raw_id' = Unbound
  /\ records' = <<>>
  /\ inserted' = 0
  /\ skipped' = 0
  /\ todoH' = <<>>
  /\ todoD' = <<>>
  /\ target_date' = NullDate
  /\ UNCHANGED <<configured, raw, Stores, nfail, nruns>>
  /\ UNCHANGED <<evalVars, syncs>>

Init ==
  /\ configured \in BOOLEAN
  /\ raw = <<>>
  /\ ckpt = EmptyTable
  /\ refs = <<>>
  /\ daily = EmptyTable
  /\ hourly = EmptyTable
  /\ kbdaily = EmptyTable
  /\ pc = "idle"
  /\ last_raw_id = Unbound
  /\ records = <<>>
  /\ inserted = 0
  /\ skipped = 0
  /\ todoH = <<>>
  /\ todoD = <<>>
  /\ target_date = NullDate
  /\ result = NoResult
  /\ pre = NoSnapshot
  /\ nfail = 0
  /\ nruns = 0
  /\ results = <<>>
  /\ jobs = EmptyTable
  /\ run = EmptyTable
  /\ lastRow = NoLast
  /\ reply = NoReply
  /\ syncs = [r \in SyncIds |-> NoSync]

Next ==
  \/ AddRaw
  \/ HourlyStart
  \/ Fetch
  \/ NoopCheckpoint
  \/ SyncRecords
  \/ UpdateHourly
  \/ UpdateDaily
  \/ UpdateKbDaily
  \/ SuccessCheckpoint
  \/ HourlyExcept
  \/ HandlerRaises
  \/ DailyStart
  \/ Recalculate
  \/ RefreshKbNames
  \/ DailyCheckpoint
  \/ DailyExcept
  \/ Return

Spec == Init /\ [][Next]_vars

\* ===================================================== properties: sync engine
Cursor == get_checkpoint(ckpt, "hourly")
HourlyRun == configured /\ target_date = NullDate
DailyRun == configured /\ target_date # NullDate
Returned(status) == pc = "ret" /\ result.status = status

\* per-mode counts <<rag, direct, selected>> of a counter row, 0 when absent
ModesOf(t, key) ==
  IF key \in DOMAIN t
  THEN <<t[key].rag_retrieval_count, t[key].direct_injection_count,
         t[key].selected_documents_count>>
  ELSE <<0, 0, 0>>
TotalOf(t, key) == IF key \in DOMAIN t THEN t[key].total_queries ELSE 0

\* per-mode counts obtained by scanning the reference rows in the set ids
ScanModes(rs, ids) ==
  << Cardinality({i \in ids : rs[i].injection_mode = RAG_RETRIEVAL}),
     Cardinality({i \in ids : rs[i].injection_mode = DIRECT_INJECTION}),
     Cardinality({i \in ids : rs[i].injection_mode = SELECTED_DOCUMENTS}) >>
RefsOfKb(rs, d, kb) == {i \in RefsOn(rs, d) : rs[i].knowledge_id = kb}
KbIds == {7, 9}

\* per-mode counts of the raw rows in a batch
BatchModes(recs) ==
  << CountMode(recs, RAG_RETRIEVAL), CountMode(recs, DIRECT_INJECTION),
     CountMode(recs, SELECTED_DOCUMENTS) >>
Plus(a, b) == <<a[1] + b[1], a[2] + b[2], a[3] + b[3]>>

\* rows of the fetched batch that were / were not in the reference store when
\* the run started
RedeliveredRows == SelectSeq(records, LAMBDA r : Exists(pre.refs, r.id))
FreshRows == SelectSeq(records, LAMBDA r : ~Exists(pre.refs, r.id))

\* C1: no double counting.  When a successful run_hourly_sync fetched rows that
\* an earlier batch had already ingested and aggregated, the daily counters of
\* every date grow only by the rows the run newly inserted, and the run reports
\* as skipped exactly the redelivered rows.
C1_NoDoubleCounting ==
  ( /\ Returned("success") /\ HourlyRun
    /\ RedeliveredRows # <<>>
    /\ \A d \in Dates : ModesOf(pre.daily, d) = ScanModes(pre.refs, RefsOn(pre.refs, d)) )
  => /\ result.records_skipped = Len(RedeliveredRows)
     /\ \A d \in Dates :
          /\ ModesOf(daily, d) =
               Plus(ModesOf(pre.daily, d), BatchModes(OnDate(FreshRows, d)))
          /\ TotalOf(daily, d) =
               TotalOf(pre.daily, d) + Len(OnDate(FreshRows, d))
                 - CountMode(OnDate(FreshRows, d), UNKNOWN)

\* C2: checkpoint monotonicity.  No step lowers the last_raw_id of the 'hourly'
\* checkpoint, and a run_hourly_sync that ends failed (or by raising) leaves it
\* at the value it had when the run started.
C2_FailedRunKeepsCursor ==
  (pc = "ret" /\ HourlyRun /\ result.status \in {"failed", "raised"})
     => Cursor = pre.cursor
C2_CheckpointMonotonic ==
  /\ [][get_checkpoint(ckpt', "hourly") >= get_checkpoint(ckpt, "hourly")]_vars
  /\ []C2_FailedRunKeepsCursor
C2_Witness ==
  /\ Returned("failed") /\ HourlyRun
  /\ pre.cursor > 0
  /\ ckpt["hourly"].status = "failed"

\* C3: counter consistency.  Every daily_stats row has
\* total_queries = rag_retrieval + direct_injection + selected_documents.
C3_CounterConsistency ==
  \A d \in DOMAIN daily :
     daily[d].total_queries =
       daily[d].rag_retrieval_count + daily[d].direct_injection_count
         + daily[d].selected_documents_count

\* C6: idempotent sync.  A run_hourly_sync that fetched nothing and returns
\* success reports records_synced = 0, leaves a success checkpoint holding the
\* cursor it started from, and changes no reference row and no counter; as long
\* as nothing was fetched no store other than the checkpoint is written.
C6_IdempotentSync ==
  /\ (Returned("success") /\ HourlyRun /\ records = <<>>) =>
        /\ result.records_synced = 0
        /\ ckpt["hourly"] = [last_raw_id |-> pre.cursor, status |-> "success",
                             records_synced |-> 0, error_message |-> NullStr]
        /\ refs = pre.refs /\ daily = pre.daily
        /\ hourly = pre.hourly /\ kbdaily = pre.kbdaily
  /\ (pc = "noop") =>
        /\ refs = pre.refs /\ daily = pre.daily
        /\ hourly = pre.hourly /\ kbdaily = pre.kbdaily /\ ckpt = pre.ckpt
C6_Witness ==
  /\ Returned("success") /\ HourlyRun /\ records = <<>>
  /\ Len(refs) > 0 /\ pre.cursor > 0 /\ DOMAIN daily # {}

\* C7: recompute authority.  When run_daily_sync(d) returns success,
\* daily_stats(d) holds the counts of a scan of the reference rows of date d:
\* all of them, those of each injection mode, and the distinct owners.
C7_RecomputeAuthority ==
  (Returned("success") /\ DailyRun) =>
     /\ target_date \in DOMAIN daily
     /\ daily[target_date].total_queries = Cardinality(RefsOn(refs, target_date))
     /\ ModesOf(daily, target_date) = ScanModes(refs, RefsOn(refs, target_date))
     /\ daily[target_date].active_kb_count =
          Cardinality({kb \in KbIds : RefsOfKb(refs, target_date, kb) # {}})
C7_Witness ==
  /\ Returned("success") /\ DailyRun
  /\ target_date \in DOMAIN pre.daily
  /\ pre.daily[target_date].total_queries # daily[target_date].total_queries

\* C8: counters across a failed and retried run.  When a run_hourly_sync that
\* started from a failed checkpoint returns success, the per-mode counts of
\* daily_stats and kb_daily_stats count every reference row exactly once.
C8_RetryCountsOnce ==
  ( /\ Returned("success") /\ HourlyRun
    /\ "hourly" \in DOMAIN pre.ckpt
    /\ pre.ckpt["hourly"].status = "failed" )
  => /\ \A d \in Dates : ModesOf(daily, d) = ScanModes(refs, RefsOn(refs, d))
     /\ \A d \in Dates : \A kb \in KbIds :
          ModesOf(kbdaily, <<d, kb>>) = ScanModes(refs, RefsOfKb(refs, d, kb))

\* C12: one reference row per raw_id.  No two rows of rag_record_refs share a
\* raw_id; the rows present when a run started are still there, unchanged and
\* in place, at every point of the run; and a successful run that fetched rows
\* already present reports exactly those rows as skipped.
C12_OneRefPerRawId ==
  /\ \A i, j \in 1..Len(refs) : refs[i].raw_id = refs[j].raw_id => i = j
  /\ pc # "idle" =>
       /\ Len(refs) >= Len(pre.refs)
       /\ SubSeq(refs, 1, Len(pre.refs)) = pre.refs
  /\ (Returned("success") /\ HourlyRun /\ records # <<>>) =>
       result.records_skipped = Len(RedeliveredRows)
C12_Witness ==
  /\ Returned("success") /\ HourlyRun
  /\ RedeliveredRows # <<>>
  /\ result.records_skipped = Len(RedeliveredRows)
  /\ refs = pre.refs

\* C13: no gap.  Every eligible raw row with id <= the 'hourly' cursor has a
\* reference row, and a cursor above 0 is the raw_id of a stored reference row
\* and never above the largest stored raw_id.
C13_NoGap ==
  /\ \A i \in 1..Len(raw) :
       (Eligible(raw[i]) /\ raw[i].id <= Cursor) => Exists(refs, raw[i].id)
  /\ Cursor > 0 => Exists(refs, Cursor)
C13_Witness ==
  /\ Returned("failed") /\ HourlyRun
  /\ Len(refs) > Len(pre.refs)
  /\ Cursor = pre.cursor
  /\ \E i \in 1..Len(refs) : refs[i].raw_id > Cursor

\* C14: a failing run is recorded.  A run_hourly_sync in which an operation
\* raised returns status failed, and the 'hourly' checkpoint then has status
\* failed, the error message, and the cursor it had before the run.
C14_FailureIsRecorded ==
  (pc = "ret" /\ HourlyRun /\ result.status \notin {"success", "skipped"}) =>
     /\ result.status = "failed"
     /\ "hourly" \in DOMAIN ckpt
     /\ ckpt["hourly"].status = "failed"
     /\ ckpt["hourly"].error_message = SomeError
     /\ ckpt["hourly"].last_raw_id = pre.cursor

\* C15: a successful run_hourly_sync with a non-empty batch leaves the cursor at
\* the largest id of the batch and returns it, and records_synced (returned and
\* stored in the checkpoint) is the number of reference rows the run added,
\* with records_synced + records_skipped = the batch size.
C15_SuccessAdvancesCursor ==
  (Returned("success") /\ HourlyRun /\ records # <<>>) =>
     /\ \A i \in 1..Len(records) : records[i].id <= Cursor
     /\ \E i \in 1..Len(records) : records[i].id = Cursor
     /\ result.last_raw_id = Cursor
     /\ result.records_synced = Len(refs) - Len(pre.refs)
     /\ ckpt["hourly"].records_synced = result.records_synced
     /\ ckpt["hourly"].status = "success"
     /\ result.records_synced + result.records_skipped = Len(records)
C15_Witness ==
  /\ Returned("success") /\ HourlyRun
  /\ result.records_synced = 1
  /\ result.records_skipped = 1
  /\ Cursor = MaxRaw

\* ========================================================= EvaluationOrchestrator
MaxJobs == 2      \* evaluation jobs triggered in one behaviour
MaxRefs == 2      \* reference rows present when evaluation starts
MaxExecs == 2     \* execute_evaluation calls in one behaviour
MaxRunning == 1   \* jobs triggered and not yet finished at the same time

\* what a well-behaved scorer returns for its metrics (one value per scorer)
Score == [s \in Scorers |->
            CASE s = "ragas" -> "0.9" [] s = "ragas_emb" -> "0.8"
              [] s = "ragas_llm" -> "0.7" [] s = "trulens_emb" -> "0.6"
              [] OTHER -> "0.5"]
\* the other things a scorer call may produce: an exception, a missing value,
\* a non-finite float
Deviations == {"raise", "nan", "inf", "-inf"}

\* outcomes of one fan-out: all scorers behave; all raise; one deviates; one
\* raises while another returns a non-finite value
ScorerOutcomes ==
  {Score} \cup {[s \in Scorers |-> "raise"]} \cup
  {[s \in Scorers |-> IF s = k THEN v ELSE Score[s]] : k \in Scorers, v \in Deviations}
  \cup
  {[s \in Scorers |-> IF s = "ragas_llm" THEN "raise" ELSE IF s = k THEN "nan" ELSE Score[s]] :
     k \in {"ragas", "trulens_llm"}}

\* mutant: only NaN is coerced
sanitize_float_KeepsInf(value) ==
  IF value = "None" THEN NullStr
  ELSE IF value = "nan" THEN NullStr
  ELSE value

sanitize_float(value) ==
  IF value = "None" THEN NullStr
  ELSE IF value \in {"nan", "inf", "-inf"} THEN NullStr
  ELSE value

\* lines 272-312: an exception among the gathered results becomes an all-None dict
HandleException_Keeps(value) == value
HandleException(value) == IF value = "raise" THEN "None" ELSE value

\* the scored columns of an EvaluationResult, by scorer (lines 397-415, 466-487)
ScoredFields(outcome) == [s \in Scorers |-> sanitize_float(HandleException(outcome[s]))]

\* the reference rows the evaluation starts from: raw rows as the sync engine
\* ingested them, each with its extracted text
EvalRowTemplates ==
  { [subtask_id |-> 1, user_id |-> 1, context_type |-> "knowledge_base",
     type_data |-> Payload("rag_retrieval", 7, NullId),
     created_at |-> [date |-> 1, hour |-> 10], extracted_text |-> "text"],
    [subtask_id |-> 1, user_id |-> 1, context_type |-> "knowledge_base",
     type_data |-> Payload("rag_retrieval", 8, NullId),
     created_at |-> [date |-> 2, hour |-> 10], extracted_text |-> "text"],
    [subtask_id |-> 1, user_id |-> 1, context_type |-> "knowledge_base",
     type_data |-> Payload("rag_retrieval", 7, NullId),
     created_at |-> [date |-> 2, hour |-> 10], extracted_text |-> ""],
    [subtask_id |-> 1, user_id |-> 2, context_type |-> "knowledge_base",
     type_data |-> Payload("direct_injection", 7, NullId),
     created_at |-> [date |-> 1, hour |-> 11], extracted_text |-> "text"] }

WithId(t, id) == [id |-> id, subtask_id |-> t.subtask_id, user_id |-> t.user_id,
                  context_type |-> t.context_type, type_data |-> t.type_data,
                  created_at |-> t.created_at, extracted_text |-> t.extracted_text]

SyncFrame == <<configured, raw, ckpt, daily, hourly, kbdaily, pc, Locals, result, pre,
               nruns, syncs>>

JobIds == 1..MaxJobs
\* the request of a trigger call and the counts it returns; both are gone once
\* the response is sent and the background task starts
NoRequest == [mode |-> "none", knowledge_id |-> NullId, start_date |-> NullDate,
              end_date |-> NullDate, force |-> FALSE]
NoResponse == [total_records |-> NullId, pending_evaluation |-> NullId]
\* the awaitables of the asyncio.gather in progress: what each was called with
\* and where it is ("idle", "started", or what it gave)
NoCall == [query |-> NullStr, text |-> NullStr, answer |-> NullStr]
NoTasks == [s \in Scorers |-> "idle"]
NoArgs == [s \in Scorers |-> NoCall]
\* evaluation is the local of that name: the id of the EvaluationResult the
\* select of lines 365-370 gave, NullId for None
NoRun == [pc |-> "queued", idx |-> 1, execs |-> 0, request |-> NoRequest,
          response |-> NoResponse, tasks |-> NoTasks, args |-> NoArgs,
          evaluation |-> NullId]

\* mutant: the query is not narrowed to rag_retrieval rows
Candidates_AnyMode(rs, mode, knowledge_id, start_date, end_date, force) ==
  {i \in 1..Len(rs) :
     /\ (mode = "by_kb" /\ Truthy(knowledge_id)) => rs[i].knowledge_id = knowledge_id
     /\ start_date # NullDate =>
          (rs[i].record_date # NullDate /\ rs[i].record_date >= start_date)
     /\ end_date # NullDate =>
          (rs[i].record_date # NullDate /\ rs[i].record_date <= end_date)
     /\ ~force => rs[i].evaluation_status \in {PENDING, FAILED}}

\* trigger_evaluation, lines 111-133: the rows the job will evaluate
Candidates(rs, mode, knowledge_id, start_date, end_date, force) ==
  {i \in 1..Len(rs) :
     /\ rs[i].injection_mode = RAG_RETRIEVAL
     /\ (mode = "by_kb" /\ Truthy(knowledge_id)) => rs[i].knowledge_id = knowledge_id
     /\ start_date # NullDate =>
          (rs[i].record_date # NullDate /\ rs[i].record_date >= start_date)
     /\ end_date # NullDate =>
          (rs[i].record_date # NullDate /\ rs[i].record_date <= end_date)
     /\ ~force => rs[i].evaluation_status \in {PENDING, FAILED}}

\* a set of row ids as the list the query returns (ascending id)
RECURSIVE AsList(_)
AsList(ids) ==
  IF ids = {} THEN <<>>
  ELSE LET m == CHOOSE x \in ids : \A y \in ids : x <= y
       IN  <<m>> \o AsList(ids \ {m})

\* POST /trigger with a valid request (by_kb with a knowledge_id, by_date_range
\* without), lines 109-148
TriggerEvaluation ==
  /\ Cardinality(DOMAIN jobs) < MaxJobs
  /\ \E mode \in {"by_kb", "by_date_range"}, knowledge_id \in {NullId, 7},
        start_date \in {NullDate, 2}, end_date \in {NullDate, 1}, force \in BOOLEAN :
       /\ mode = "by_kb" <=> Truthy(knowledge_id)
       /\ LET job_id == Cardinality(DOMAIN jobs) + 1
              recs == Candidates(refs, mode, knowledge_id, start_date, end_date, force)
          IN  /\ jobs' = Upsert(jobs, job_id,
                          [status |-> "started", total |-> Cardinality(recs),
                           completed |-> 0, failed |-> 0, skipped |-> 0,
                           record_ids |-> AsList(recs)])
              /\ run' = Upsert(run, job_id,
                         [NoRun EXCEPT
                            !.request = [mode |-> mode, knowledge_id |-> knowledge_id,
                                         start_date |-> start_date,
                                         end_date |-> end_date, force |-> force],
                            !.response =
                              [total_records |-> Cardinality(recs),
                               pending_evaluation |->
                                 Cardinality({i \in recs :
                                    refs[i].evaluation_status # COMPLETED})]])
  /\ UNCHANGED <<SyncFrame, refs, results, nfail, lastRow, reply>>

\* a trigger while fewer than MaxRunning jobs are unfinished
Trigger ==
  /\ Cardinality({j \in DOMAIN jobs : run[j].pc # "done"}) < MaxRunning
  /\ TriggerEvaluation

\* how many times execute_evaluation has been called so far
RECURSIVE ExecsIn(_, _)
ExecsIn(r, js) ==
  IF js = {} THEN 0
  ELSE LET j == CHOOSE x \in js : TRUE IN r[j].execs + ExecsIn(r, js \ {j})
Execs == ExecsIn(run, DOMAIN run)

\* _run_rag_evaluation / execute_evaluation, lines 152-159: the background task
\* of a triggered job starts
Execute(j) ==
  /\ j \in DOMAIN jobs
  /\ run[j].pc = "queued"
  /\ run[j].execs = 0
  /\ Execs < MaxExecs
  /\ jobs' = [jobs EXCEPT ![j].status = "running"]
  /\ run' = [run EXCEPT ![j] = [NoRun EXCEPT !.pc = "eval", !.execs = 1]]
  /\ UNCHANGED <<SyncFrame, refs, results, nfail, lastRow, reply>>

SetStatus(rs, id, status) == [rs EXCEPT ![id].evaluation_status = status]

ResultsOf(res, id) == {k \in 1..Len(res) : res[k].rag_record_ref_id = id}

\* mutant: a new EvaluationResult is created every time
UpsertResult_AlwaysCreates(res, id, outcome) ==
  Append(res, [rag_record_ref_id |-> id, scores |-> ScoredFields(outcome)])

\* lines 364-439: create the EvaluationResult of row id or overwrite the one found
UpsertResult(res, id, outcome) ==
  LET found == ResultsOf(res, id)
  IN  IF found # {}
      THEN [res EXCEPT ![CHOOSE k \in found : TRUE].scores = ScoredFields(outcome)]
      ELSE Append(res, [rag_record_ref_id |-> id, scores |-> ScoredFields(outcome)])

\* mutant: the row is linked to the first EvaluationResult of the table
ResultId_First(res, id) == 1

\* line 435: evaluation.id after the flush
ResultId(res, id) == CHOOSE k \in ResultsOf(res, id) : TRUE

\* execute_evaluation, lines 163-169: the ledger entry after a row
Count_DropsFailed(js, j, outcome) ==
  IF outcome = "returned" THEN [js EXCEPT ![j].completed = @ + 1] ELSE js
Count_Twice(js, j, outcome) ==
  IF outcome = "returned"
  THEN [js EXCEPT ![j].completed = @ + 2]
  ELSE [js EXCEPT ![j].failed = @ + 2]
Count(js, j, outcome) ==
  IF outcome = "returned"
  THEN [js EXCEPT ![j].completed = @ + 1]
  ELSE [js EXCEPT ![j].failed = @ + 1]

\* the row ends by `return` (lines 191, 201, 222, 447) or by an exception that
\* reaches execute_evaluation (line 165); the loop goes on to the next id
Ends(j, id, outcome, step, ret) ==
  /\ jobs' = Count(jobs, j, outcome)
  /\ run' = [run EXCEPT ![j].idx = @ + 1]
  /\ lastRow' = [job |-> j, id |-> id, outcome |-> outcome, step |-> step, ret |-> ret]
Returns(j, id, step, ret) == Ends(j, id, "returned", step, ret)
Raises(j, id, step, ret) == Ends(j, id, "raised", step, ret)

\* lines 449-453: the except clause of _evaluate_single_rag_record; with a session
\* that needs a rollback its commit raises and the status is not written
FailRow(rs, id, usable) == IF usable THEN SetStatus(rs, id, FAILED) ELSE rs

\* mutant: only a missing text is skipped, an empty one is scored
NoText_OnlyNone(extracted_text) == extracted_text = NullStr

\* line 214: `if not extracted_text`
NoText(extracted_text) == extracted_text \in {"", NullStr}

\* one turn of the loop of execute_evaluation (lines 161-169) around
\* _evaluate_single_rag_record (lines 179-453)
EvaluateRow(j) ==
  /\ j \in DOMAIN jobs
  /\ run[j].pc = "eval"
  /\ run[j].idx <= Len(jobs[j].record_ids)
  /\ LET id == jobs[j].record_ids[run[j].idx]
         rag_ref == refs[id]
         extracted_text == fetch_extracted_text(configured, raw, rag_ref.raw_id)
     IN
     \/ \* lines 184-187: the select of the row raises, outside the try block
        /\ CanRaise /\ nfail' = nfail + 1
        /\ Raises(j, id, "refetch", NoOutcome)
        /\ UNCHANGED <<refs, results>>
     \/ \* lines 193-201: not a rag_retrieval row any more
        /\ rag_ref.injection_mode # RAG_RETRIEVAL
        /\ refs' = SetStatus(refs, id, SKIPPED)
        /\ Returns(j, id, "mode", NoOutcome)
        /\ UNCHANGED <<results, nfail>>
     \/ \* lines 205-212: a raw-source read raises
        /\ rag_ref.injection_mode = RAG_RETRIEVAL
        /\ CanRaise /\ nfail' = nfail + 1
        /\ \E usable \in BOOLEAN : refs' = FailRow(refs, id, usable)
        /\ Raises(j, id, "raw", NoOutcome)
        /\ UNCHANGED results
     \/ \* lines 214-222: no extracted text
        /\ rag_ref.injection_mode = RAG_RETRIEVAL
        /\ NoText(extracted_text)
        /\ refs' = SetStatus(refs, id, SKIPPED)
        /\ Returns(j, id, "text", NoOutcome)
        /\ UNCHANGED <<results, nfail>>
     \/ \* lines 231-342: pending is committed, the scorers ran, then the
        \* diagnostic analysis raises
        /\ rag_ref.injection_mode = RAG_RETRIEVAL
        /\ ~NoText(extracted_text)
        /\ CanRaise /\ nfail' = nfail + 1
        /\ \E usable \in BOOLEAN :
             refs' = FailRow(SetStatus(refs, id, PENDING), id, usable)
        /\ Raises(j, id, "diag", NoOutcome)
        /\ UNCHANGED results
     \/ \* lines 364-439: writing the result raises; a usable session's handler
        \* commit may persist the EvaluationResult that was already added
        /\ rag_ref.injection_mode = RAG_RETRIEVAL
        /\ ~NoText(extracted_text)
        /\ CanRaise /\ nfail' = nfail + 1
        /\ Raises(j, id, "persist", NoOutcome)
        /\ \/ /\ refs' = FailRow(SetStatus(refs, id, PENDING), id, TRUE)
              /\ \E o \in ScorerOutcomes : results' = UpsertResult(results, id, o)
           \/ /\ \E usable \in BOOLEAN :
                   refs' = FailRow(SetStatus(refs, id, PENDING), id, usable)
              /\ UNCHANGED results
     \/ \* lines 231-447: the row is scored and its result written
        /\ rag_ref.injection_mode = RAG_RETRIEVAL
        /\ ~NoText(extracted_text)
        /\ \E o \in ScorerOutcomes :
             IF Cardinality(ResultsOf(results, id)) > 1
             THEN \* scalar_one_or_none raises MultipleResultsFound
                  /\ refs' = SetStatus(refs, id, FAILED)
                  /\ Raises(j, id, "persist", NoOutcome)
                  /\ UNCHANGED results
             ELSE /\ results' = UpsertResult(results, id, o)
                  /\ refs' = [refs EXCEPT
                                ![id].evaluation_result_id = ResultId(results', id),
                                ![id].evaluation_status = COMPLETED]
                  /\ Returns(j, id, "done", o)
        /\ UNCHANGED nfail
  /\ UNCHANGED <<SyncFrame, reply>>

\* mutant: the loop ends without the status write of line 171
Finish_KeepsRunning(j) ==
  /\ j \in DOMAIN jobs
  /\ run[j].pc = "eval"
  /\ run[j].idx > Len(jobs[j].record_ids)
  /\ jobs' = jobs
  /\ run' = [run EXCEPT ![j].pc = "done"]
  /\ UNCHANGED <<SyncFrame, refs, results, nfail, lastRow, reply>>

\* mutant: a job whose rows all failed ends as "failed"
Finish_FailsJob(j) ==
  /\ j \in DOMAIN jobs
  /\ run[j].pc = "eval"
  /\ run[j].idx > Len(jobs[j].record_ids)
  /\ jobs' = [jobs EXCEPT ![j].status =
                 IF jobs[j].failed > 0 /\ jobs[j].completed = 0
                 THEN "failed" ELSE "completed"]
  /\ run' = [run EXCEPT ![j].pc = "done"]
  /\ UNCHANGED <<SyncFrame, refs, results, nfail, lastRow, reply>>

\* execute_evaluation, line 171: the loop is over
Finish(j) ==
  /\ j \in DOMAIN jobs
  /\ run[j].pc = "eval"
  /\ run[j].idx > Len(jobs[j].record_ids)
  /\ jobs' = [jobs EXCEPT ![j].status = "completed"]
  /\ run' = [run EXCEPT ![j].pc = "done"]
  /\ UNCHANGED <<SyncFrame, refs, results, nfail, lastRow, reply>>

\* execute_evaluation called again for a job that has run (lines 152-159 test
\* only that the job exists; the counters are not reset)
ReExecute(j) ==
  /\ j \in DOMAIN jobs
  /\ run[j].pc = "done"
  /\ Execs < MaxExecs
  /\ Cardinality({k \in DOMAIN jobs : run[k].pc # "done"}) < MaxRunning
  /\ jobs' = [jobs EXCEPT ![j].status = "running"]
  /\ run' = [run EXCEPT ![j].pc = "eval", ![j].idx = 1, ![j].execs = @ + 1]
  /\ UNCHANGED <<SyncFrame, refs, results, nfail, lastRow, reply>>

InitEval ==
  /\ configured = TRUE
  /\ \E rows \in [1..MaxRefs -> EvalRowTemplates] :
       raw = [i \in 1..MaxRefs |-> WithId(rows[i], i)]
  /\ refs = sync_records(<<>>, raw)
  /\ ckpt = update_checkpoint(EmptyTable, "hourly", MaxRefs, "success", MaxRefs, NullStr)
  /\ daily = EmptyTable
  /\ hourly = EmptyTable
  /\ kbdaily = EmptyTable
  /\ pc = "idle"
  /\ last_raw_id = Unbound
  /\ records = <<>>
  /\ inserted = 0
  /\ skipped = 0
  /\ todoH = <<>>
  /\ todoD = <<>>
  /\ target_date = NullDate
  /\ result = NoResult
  /\ pre = NoSnapshot
  /\ nfail = 0
  /\ nruns = 0
  /\ results = <<>>
  /\ jobs = EmptyTable
  /\ run = EmptyTable
  /\ lastRow = NoLast
  /\ reply = NoReply
  /\ syncs = [r \in SyncIds |-> NoSync]

NextEval ==
  \/ Trigger
  \/ \E j \in JobIds : Execute(j)
  \/ \E j \in JobIds : EvaluateRow(j)
  \/ \E j \in JobIds : Finish(j)

SpecEval == InitEval /\ [][NextEval]_vars

NextReexec ==
  \/ Trigger
  \/ \E j \in JobIds : Execute(j)
  \/ \E j \in JobIds : EvaluateRow(j)
  \/ \E j \in JobIds : Finish(j)
  \/ \E j \in JobIds : ReExecute(j)

SpecReexec == InitEval /\ [][NextReexec]_vars

\* --------------------------------------------------------- properties: job ledger
Handled(j) == jobs[j].completed + jobs[j].failed + jobs[j].skipped

\* C4: job ledger conservation.  Every job whose status is "completed" has
\* completed + failed + skipped = total, whatever mix of rows returned (scored
\* or skipped) and raised.
C4_LedgerConservation ==
  \A j \in DOMAIN jobs :
     jobs[j].status = "completed" => Handled(j) = jobs[j].total
C4_Witness ==
  \E j \in DOMAIN jobs :
     /\ jobs[j].status = "completed"
     /\ jobs[j].completed > 0
     /\ jobs[j].failed > 0

C9_RaisedRowIsFailed ==
  lastRow.outcome = "raised" => refs[lastRow.id].evaluation_status = FAILED

\* C10: partial scorer failure tolerance.  When a scorer raised for a row whose
\* raw reads and persistence succeeded, the row is completed, its linked
\* EvaluationResult has null for the raising scorers, the finite value each
\* other scorer returned (null for a non-finite one), and no step adds to a
\* job's failed counter unless the row it handled raised.
C10_ScoredDespiteRaise ==
  (lastRow.step = "done" /\ \E s \in Scorers : lastRow.ret[s] = "raise") =>
     LET rag_ref == refs[lastRow.id]
         rid == rag_ref.evaluation_result_id
     IN  /\ rag_ref.evaluation_status = COMPLETED
         /\ rid \in 1..Len(results)
         /\ results[rid].rag_record_ref_id = lastRow.id
         /\ \A s \in Scorers :
              results[rid].scores[s] =
                IF lastRow.ret[s] \in {"raise", "nan", "inf", "-inf"} THEN NullStr
                ELSE lastRow.ret[s]
C10_FailedOnlyWhenRaised ==
  \A j \in DOMAIN jobs :
     jobs'[j].failed # jobs[j].failed =>
        (lastRow'.job = j /\ lastRow'.outcome = "raised")
C10_PartialScorerFailure ==
  /\ []C10_ScoredDespiteRaise
  /\ [][C10_FailedOnlyWhenRaised]_vars
C10_Witness ==
  /\ lastRow.step = "done"
  /\ \E s \in Scorers : lastRow.ret[s] = "raise"
  /\ \E s \in Scorers : lastRow.ret[s] = Score[s]
  /\ refs[lastRow.id].evaluation_status = COMPLETED
  /\ jobs[lastRow.job].failed = 0
  /\ jobs[lastRow.job].completed > 0

\* C11: job status order.  A job is "started" from trigger_evaluation until
\* execute_evaluation begins, "running" while its rows are processed and
\* "completed" afterwards; its status is never "failed", and no step moves it
\* backwards or out of "completed".
StatusRank(status) ==
  CASE status = "started" -> 1 [] status = "running" -> 2
    [] status = "completed" -> 3 [] OTHER -> 0
C11_StatusMatchesPhase ==
  \A j \in DOMAIN jobs :
     /\ jobs[j].status \in {"started", "running", "completed"}
     /\ jobs[j].status = "started" <=> run[j].pc = "queued"
     /\ jobs[j].status = "running" <=> run[j].pc = "eval"
     /\ jobs[j].status = "completed" <=> run[j].pc = "done"
C11_StatusStep ==
  \A j \in DOMAIN jobs' :
     IF j \in DOMAIN jobs
     THEN /\ StatusRank(jobs'[j].status) >= StatusRank(jobs[j].status)
          /\ StatusRank(jobs'[j].status) <= StatusRank(jobs[j].status) + 1
     ELSE jobs'[j].status = "started"
C11_JobStatusOrder ==
  /\ []C11_StatusMatchesPhase
  /\ [][C11_StatusStep]_vars
C11_Witness ==
  \E j \in DOMAIN jobs :
     /\ jobs[j].status = "completed"
     /\ jobs[j].total > 0
     /\ jobs[j].failed = jobs[j].total

\* the rows a request selects: rag_retrieval rows, narrowed by knowledge base
\* (mode by_kb) and by the date range
Matches(rs, req) ==
  {i \in 1..Len(rs) :
     /\ rs[i].injection_mode = RAG_RETRIEVAL
     /\ req.mode = "by_kb" => rs[i].knowledge_id = req.knowledge_id
     /\ req.start_date # NullDate =>
          (rs[i].record_date # NullDate /\ rs[i].record_date >= req.start_date)
     /\ req.end_date # NullDate =>
          (rs[i].record_date # NullDate /\ rs[i].record_date <= req.end_date)}
NotCompleted(rs, ids) == {i \in ids : rs[i].evaluation_status # COMPLETED}

\* C16: float sanitization.  Every scored field of every stored
\* EvaluationResult is null or one of the finite values a scorer returns, and
\* the result written for a row (created or overwritten) has null wherever the
\* scorer returned NaN, +Infinity or -Infinity.
C16_FloatSanitization ==
  /\ \A k \in 1..Len(results) : \A s \in Scorers :
       results[k].scores[s] \in {NullStr, Score[s]}
  /\ lastRow.step = "done" =>
       \A s \in Scorers :
          lastRow.ret[s] \in {"nan", "inf", "-inf"} =>
             results[refs[lastRow.id].evaluation_result_id].scores[s] = NullStr
C16_Witness ==
  /\ lastRow.step = "done"
  /\ lastRow.job = 2
  /\ jobs[1].record_ids = <<lastRow.id>>
  /\ jobs[1].completed = 1
  /\ Len(results) = 1
  /\ \E s \in Scorers :
       /\ lastRow.ret[s] = "-inf"
       /\ results[1].scores[s] = NullStr

\* C17: candidate set.  The record_ids of a job just triggered are the rows
\* its request selects that are not completed, or all the rows it selects when
\* the request has force.
C17_CandidatesExcludeOnlyCompleted ==
  \A j \in DOMAIN jobs :
     run[j].pc = "queued" =>
        Range(jobs[j].record_ids) =
          IF run[j].request.force THEN Matches(refs, run[j].request)
          ELSE NotCompleted(refs, Matches(refs, run[j].request))

\* C18: trigger's counts.  trigger_evaluation returns as total_records the
\* number of rows its request selects, with or without force and whatever
\* their evaluation_status, and as pending_evaluation the number of those that
\* are not completed.
C18_TriggerCounts ==
  \A j \in DOMAIN jobs :
     run[j].pc = "queued" =>
        /\ run[j].response.total_records =
             Cardinality(Matches(refs, run[j].request))
        /\ run[j].response.pending_evaluation =
             Cardinality(NotCompleted(refs, Matches(refs, run[j].request)))

\* C19: only rag_retrieval rows are evaluated.  Every id in a job's record_ids
\* is a rag_retrieval row, the injection_mode of a row never changes (so it was
\* one when the job was triggered), and the last row for which the scorers ran
\* is a rag_retrieval row.
C19_TargetsAreRag ==
  /\ \A j \in DOMAIN jobs : \A i \in 1..Len(jobs[j].record_ids) :
       refs[jobs[j].record_ids[i]].injection_mode = RAG_RETRIEVAL
  /\ lastRow.step \in {"diag", "persist", "done"} =>
       refs[lastRow.id].injection_mode = RAG_RETRIEVAL
C19_ModeStep ==
  /\ Len(refs') >= Len(refs)
  /\ \A i \in 1..Len(refs) : refs'[i].injection_mode = refs[i].injection_mode
C19_OnlyRagRowsEvaluated ==
  /\ []C19_TargetsAreRag
  /\ [][C19_ModeStep]_vars
C19_Witness ==
  /\ lastRow.step = "done"
  /\ jobs[lastRow.job].total = 1
  /\ run[lastRow.job].pc = "done"
  /\ \E i \in 1..Len(refs) :
       /\ refs[i].injection_mode # RAG_RETRIEVAL
       /\ refs[i].knowledge_id = refs[lastRow.id].knowledge_id
       /\ refs[i].record_date = refs[lastRow.id].record_date
       /\ refs[i].evaluation_status = PENDING

\* C20: one EvaluationResult per reference row.  No two evaluation_results rows
\* have the same rag_record_ref_id; a row's evaluation_result_id, once set,
\* points to the result of that row and never changes; a completed row is
\* linked; and no step removes a result or gives it to another row.
C20_AtMostOneResult ==
  /\ \A a, b \in 1..Len(results) :
       results[a].rag_record_ref_id = results[b].rag_record_ref_id => a = b
  /\ \A i \in 1..Len(refs) :
       /\ refs[i].evaluation_result_id # NullId =>
            /\ refs[i].evaluation_result_id \in 1..Len(results)
            /\ results[refs[i].evaluation_result_id].rag_record_ref_id = i
       /\ refs[i].evaluation_status = COMPLETED => refs[i].evaluation_result_id # NullId
C20_ResultStep ==
  /\ Len(results') >= Len(results)
  /\ \A k \in 1..Len(results) :
       results'[k].rag_record_ref_id = results[k].rag_record_ref_id
  /\ \A i \in 1..Len(refs) :
       refs[i].evaluation_result_id # NullId =>
          refs'[i].evaluation_result_id = refs[i].evaluation_result_id
C20_OneResultPerRow ==
  /\ []C20_AtMostOneResult
  /\ [][C20_ResultStep]_vars
C20_Witness ==
  /\ lastRow.step = "done"
  /\ lastRow.job = 2
  /\ jobs[1].record_ids = <<lastRow.id>>
  /\ jobs[1].completed = 1
  /\ jobs[2].record_ids = <<lastRow.id>>
  /\ Len(results) = 1
  /\ refs[lastRow.id].evaluation_result_id = 1
  /\ results[1].scores = ScoredFields(lastRow.ret)
  /\ lastRow.ret # Score

\* ------------------------------------------------------ termination of a job
\* The background task of a job runs on the event loop: every await of
\* execute_evaluation returns or raises, so a loop turn that can be taken is
\* taken, and so is the statement after the loop.
SpecEvalFair ==
  /\ InitEval
  /\ [][NextEval]_vars
  /\ \A j \in JobIds : WF_vars(EvaluateRow(j)) /\ WF_vars(Finish(j))

\* C21: termination.  Every job whose execute_evaluation has started
\* eventually has status "completed", whether its rows were scored, were
\* skipped or raised.
C21_JobEventuallyCompleted ==
  \A j \in JobIds :
     (j \in DOMAIN jobs /\ run[j].pc = "eval")
        ~> (j \in DOMAIN jobs /\ jobs[j].status = "completed")
C21_Witness ==
  \E j \in DOMAIN jobs :
     /\ jobs[j].status = "completed"
     /\ jobs[j].total = 2
     /\ jobs[j].failed = 1
     /\ \E i \in 1..2 : refs[jobs[j].record_ids[i]].evaluation_status = SKIPPED

\* ------------------------------------------------- properties: configuration
\* C22: raw source not configured.  run_hourly_sync and run_daily_sync return
\* status skipped without raising and write no checkpoint, reference row or
\* counter, and every raw-source read path (incremental fetch, details by id
\* list, extracted text, knowledge-base metadata, user names) returns its empty
\* value whatever the raw source holds.
C22_UnconfiguredIsNeutral ==
  ~configured =>
     /\ pc \in {"idle", "ret"}
     /\ pc = "ret" => result.status = "skipped"
     /\ nfail = 0
     /\ ckpt = EmptyTable /\ refs = <<>>
     /\ daily = EmptyTable /\ hourly = EmptyTable /\ kbdaily = EmptyTable
     /\ FetchIncremental(configured, raw, 0) = <<>>
     /\ fetch_subtask_context_details(configured, raw, 1..Len(raw)) = EmptyTable
     /\ \A id \in 1..Len(raw) : fetch_extracted_text(configured, raw, id) = NullStr
     /\ fetch_kb_metas(configured, KbIds) = EmptyTable
     /\ fetch_user_names(configured, DOMAIN Users) = EmptyTable
C22_Witness ==
  /\ ~configured
  /\ Returned("skipped")
  /\ nruns = MaxRuns
  /\ Len(raw) = MaxRaw
  /\ \E i \in 1..Len(raw) : Eligible(raw[i])
  /\ fetch_extracted_text(TRUE, raw, 1) = "text"

\* ----------------------------------------------- properties: classification
\* the classification rule: mode and owner of (context_type, type_data)
ClassifyMode(context_type, type_data) ==
  CASE context_type = "selected_documents" -> SELECTED_DOCUMENTS
    [] context_type # "selected_documents" /\ type_data.present
         /\ type_data.injection_mode = "rag_retrieval" -> RAG_RETRIEVAL
    [] context_type # "selected_documents" /\ type_data.present
         /\ type_data.injection_mode = "direct_injection" -> DIRECT_INJECTION
    [] OTHER -> UNKNOWN
ClassifyOwner(context_type, type_data) ==
  IF context_type = "selected_documents" THEN type_data.knowledge_base_id
  ELSE type_data.knowledge_id
\* per-mode counts <<rag, direct, selected>> of a batch under that rule
RuleModes(recs) ==
  LET n(mode) == Cardinality({i \in 1..Len(recs) :
                    ClassifyMode(recs[i].context_type, recs[i].type_data) = mode})
  IN  <<n(RAG_RETRIEVAL), n(DIRECT_INJECTION), n(SELECTED_DOCUMENTS)>>
Sum3(t) == t[1] + t[2] + t[3]
Hours == {10, 11}
EmptyStores(snap) ==
  /\ snap.refs = <<>> /\ snap.daily = EmptyTable
  /\ snap.hourly = EmptyTable /\ snap.kbdaily = EmptyTable

\* C23: first batch.  A successful run_hourly_sync that started with empty
\* reference and counter stores leaves one reference row per fetched row, in
\* every (date, hour) bucket the per-mode counts of the batch rows of that hour
\* with total their sum, in every daily row as total the number of classified
\* batch rows of that date, and the cursor at the last id of the batch.
C23_FirstBatch ==
  (Returned("success") /\ HourlyRun /\ records # <<>> /\ EmptyStores(pre)) =>
     /\ Len(refs) = Len(records)
     /\ \A i \in 1..Len(records) : refs[i].raw_id = records[i].id
     /\ \A d \in Dates : \A h \in Hours :
          /\ ModesOf(hourly, <<d, h>>) = RuleModes(InHour(records, <<d, h>>))
          /\ TotalOf(hourly, <<d, h>>) = Sum3(RuleModes(InHour(records, <<d, h>>)))
     /\ \A d \in Dates : TotalOf(daily, d) = Sum3(RuleModes(OnDate(records, d)))
     /\ Cursor = records[Len(records)].id
C23_Witness ==
  /\ Returned("success") /\ HourlyRun /\ EmptyStores(pre)
  /\ Len(records) = 2
  /\ Len(refs) = 2
  /\ refs[1].injection_mode = RAG_RETRIEVAL
  /\ refs[2].context_type = "selected_documents"
  /\ hourly = [x \in {<<1, 10>>} |->
                 [total_queries |-> 2, rag_retrieval_count |-> 1,
                  direct_injection_count |-> 0, selected_documents_count |-> 1]]
  /\ daily[1].total_queries = 2
  /\ pre.cursor = 0 /\ Cursor = 2

\* ------------------------------------------------ classification as a function
\* the (context_type, type_data) pairs classification is applied to
ClassifyPayloads ==
  {NoPayload}
  \cup {Payload(mode, kid, kbid) :
          mode \in {"", "rag_retrieval", "direct_injection", "hybrid", "RAG_RETRIEVAL"},
          kid \in {NullId, 7}, kbid \in {NullId, 9}}
  \cup {NullRagResult(kid, kbid) : kid \in {NullId, 7}, kbid \in {NullId, 9}}
ClassifyTypes == {"knowledge_base", "selected_documents", "attachment"}

InitClassify ==
  /\ configured = TRUE
  /\ \E context_type \in ClassifyTypes, type_data \in ClassifyPayloads :
       raw = << [id |-> 1, subtask_id |-> 1, user_id |-> 1,
                 context_type |-> context_type, type_data |-> type_data,
                 created_at |-> [date |-> 1, hour |-> 10],
                 extracted_text |-> "text"] >>
  /\ ckpt = EmptyTable
  /\ refs = <<>>
  /\ daily = EmptyTable
  /\ hourly = EmptyTable
  /\ kbdaily = EmptyTable
  /\ pc = "classify"
  /\ last_raw_id = Unbound
  /\ records = <<>>
  /\ inserted = 0
  /\ skipped = 0
  /\ todoH = <<>>
  /\ todoD = <<>>
  /\ target_date = NullDate
  /\ result = NoResult
  /\ pre = NoSnapshot
  /\ nfail = 0
  /\ nruns = 0
  /\ results = <<>>
  /\ jobs = EmptyTable
  /\ run = EmptyTable
  /\ lastRow = NoLast
  /\ reply = NoReply
  /\ syncs = [r \in SyncIds |-> NoSync]

\* sync_records, lines 215-229, for one record: classify it and build its
\* reference row
Classify ==
  /\ pc = "classify"
  /\ pc' = "classified"
  /\ IF get_rag_mode(raw[1].context_type, raw[1].type_data) = Raised
     THEN /\ result' = [NoResult EXCEPT !.status = Raised]
          /\ UNCHANGED refs
     ELSE /\ result' = [NoResult EXCEPT !.status = "returned"]
          /\ refs' = <<NewRef(raw[1])>>
  /\ UNCHANGED <<configured, raw, ckpt, daily, hourly, kbdaily, Locals, pre, nfail,
                 nruns>>
  /\ UNCHANGED <<evalVars, syncs>>

NextClassify == Classify

SpecClassify == InitClassify /\ [][NextClassify]_vars

\* C24: classification.  For every (context_type, type_data): selected_documents
\* rows get mode selected_documents and owner type_data.knowledge_base_id; other
\* rows get rag_retrieval or direct_injection when rag_result.injection_mode is
\* exactly that and unknown otherwise (a missing payload included), with owner
\* type_data.knowledge_id; the reference row stores a null injection_mode for
\* unknown.
C24_ClassifyRule ==
  pc = "classified" =>
     LET context_type == raw[1].context_type
         type_data == raw[1].type_data
         mode == ClassifyMode(context_type, type_data)
     IN  /\ result.status = "returned"
         /\ get_rag_mode(context_type, type_data) = mode
         /\ get_knowledge_id(context_type, type_data) =
              ClassifyOwner(context_type, type_data)
         /\ Len(refs) = 1
         /\ refs[1].injection_mode = IF mode = UNKNOWN THEN NullStr ELSE mode
         /\ refs[1].knowledge_id = ClassifyOwner(context_type, type_data)

\* ------------------------------------------------------------ calls by job id
\* rag_evaluation_jobs.get(job_id) when the key is absent (None)
NoJob == [status |-> "none", total |-> NullId, completed |-> NullId,
          failed |-> NullId, skipped |-> NullId, record_ids |-> <<>>]

\* mutant: an unknown job id gets the ledger of a job just triggered
get_job_status_Default(js, job_id) ==
  IF job_id \in DOMAIN js THEN js[job_id]
  ELSE [status |-> "started", total |-> 0, completed |-> 0, failed |-> 0,
        skipped |-> 0, record_ids |-> <<>>]

\* lines 501-503
get_job_status(js, job_id) == IF job_id \in DOMAIN js THEN js[job_id] ELSE NoJob

\* the job ids a caller may present: those trigger hands out and one it never does
CallerJobIds == 1..(MaxJobs + 1)

\* GET /status/{job_id}, endpoint lines 78-97 (no await: one step)
GetStatus(job_id) ==
  /\ reply = NoReply
  /\ LET job == get_job_status(jobs, job_id)
     IN  reply' =
           IF job = NoJob
           THEN [call |-> "status", job_id |-> job_id, code |-> 404, body |-> NoBody]
           ELSE [call |-> "status", job_id |-> job_id, code |-> 200,
                 body |-> [status |-> job.status, total |-> job.total,
                           completed |-> job.completed, failed |-> job.failed,
                           skipped |-> job.skipped]]
  /\ UNCHANGED <<SyncFrame, refs, results, nfail, lastRow, jobs, run>>

\* execute_evaluation, lines 152-154: the job id is not in rag_evaluation_jobs
ExecuteUnknown(job_id) ==
  /\ reply = NoReply
  /\ job_id \notin DOMAIN jobs
  /\ reply' = [call |-> "execute", job_id |-> job_id, code |-> 0, body |-> NoBody]
  /\ UNCHANGED <<SyncFrame, refs, results, nfail, lastRow, jobs, run>>

\* the caller has the answer
Deliver ==
  /\ reply # NoReply
  /\ reply' = NoReply
  /\ UNCHANGED <<SyncFrame, refs, results, nfail, lastRow, jobs, run>>

NextStatus ==
  \/ reply = NoReply /\ NextEval
  \/ \E job_id \in CallerJobIds : GetStatus(job_id)
  \/ \E job_id \in CallerJobIds : ExecuteUnknown(job_id)
  \/ Deliver

SpecStatus == InitEval /\ [][NextStatus]_vars

\* C25: calls by job id.  GET /status answers 404 for a job id trigger has not
\* returned and otherwise 200 with the job's current status and counters;
\* execute_evaluation with an unknown job id adds no ledger entry and changes
\* no reference row and no evaluation result.
C25_StatusAnswer ==
  reply.call = "status" =>
     IF reply.job_id \in DOMAIN run
     THEN /\ reply.code = 200
          /\ reply.body = [status |-> jobs[reply.job_id].status,
                           total |-> jobs[reply.job_id].total,
                           completed |-> jobs[reply.job_id].completed,
                           failed |-> jobs[reply.job_id].failed,
                           skipped |-> jobs[reply.job_id].skipped]
     ELSE reply.code = 404 /\ reply.body = NoBody
C25_UnknownExecuteStep ==
  reply'.call = "execute" =>
     /\ reply'.job_id \notin DOMAIN run
     /\ jobs' = jobs /\ run' = run /\ refs' = refs /\ results' = results
C25_CallsByJobId ==
  /\ []C25_StatusAnswer
  /\ [][C25_UnknownExecuteStep]_vars
C25_Witness ==
  /\ reply.call = "status"
  /\ reply.code = 200
  /\ reply.body.status = "running"
  /\ reply.body.total = 2
  /\ reply.body.completed = 1
  /\ 2 \notin DOMAIN jobs

\* --------------------------------------------- properties: hourly and owner counters
OfKb(recs, kb) ==
  SelectSeq(recs, LAMBDA r : ClassifyOwner(r.context_type, r.type_data) = kb)

\* C26: only newly inserted rows are aggregated.  When a successful
\* run_hourly_sync fetched rows that were already in the reference store, every
\* hourly_stats and kb_daily_stats bucket grows by the rows the run newly
\* inserted and by nothing else.
C26_RedeliveredNotAggregated ==
  (Returned("success") /\ HourlyRun /\ RedeliveredRows # <<>>) =>
     /\ \A d \in Dates : \A h \in Hours :
          ModesOf(hourly, <<d, h>>) =
            Plus(ModesOf(pre.hourly, <<d, h>>), RuleModes(InHour(FreshRows, <<d, h>>)))
     /\ \A d \in Dates : \A kb \in KbIds :
          ModesOf(kbdaily, <<d, kb>>) =
            Plus(ModesOf(pre.kbdaily, <<d, kb>>),
                 RuleModes(OfKb(OnDate(FreshRows, d), kb)))

\* C27: hourly_stats is additive.  When a successful run_hourly_sync follows a
\* successful one and every row it fetched is new, each (date, hour) bucket
\* holds the per-mode counts and the total it held before plus those of the
\* batch rows of that hour.
C27_HourlyAdditive ==
  ( /\ Returned("success") /\ HourlyRun
    /\ records # <<>> /\ RedeliveredRows = <<>>
    /\ "hourly" \in DOMAIN pre.ckpt /\ pre.ckpt["hourly"].status = "success" )
  => \A d \in Dates : \A h \in Hours :
        /\ ModesOf(hourly, <<d, h>>) =
             Plus(ModesOf(pre.hourly, <<d, h>>), RuleModes(InHour(records, <<d, h>>)))
        /\ TotalOf(hourly, <<d, h>>) =
             TotalOf(pre.hourly, <<d, h>>) + Sum3(RuleModes(InHour(records, <<d, h>>)))

\* --------------------------------------------- properties: skipped rows of a job
StatusCount(rs, ids, status) ==
  Cardinality({i \in 1..Len(ids) : rs[ids[i]].evaluation_status = status})

\* C28: skipped and completed counters.  When the execute_evaluation of the
\* first job has finished (and no later job has touched the rows), the job's
\* skipped counter is the number of its rows with evaluation_status skipped
\* and its completed counter the number of its rows with evaluation_status
\* completed.
C28_SkippedCounted ==
  (1 \in DOMAIN jobs /\ run[1].pc = "done" /\ lastRow.job # 2) =>
     /\ jobs[1].skipped = StatusCount(refs, jobs[1].record_ids, SKIPPED)
     /\ jobs[1].completed = StatusCount(refs, jobs[1].record_ids, COMPLETED)

\* ----------------------------------------- rows that changed since the trigger
\* Other writers of the two databases: the stores are shared, and lines 193-201
\* and 214-222 test for what they may have done to a row a job targets.
\* (between the trigger and the start of the background task)
Targeted ==
  UNION {Range(jobs[j].record_ids) : j \in {k \in DOMAIN jobs : run[k].pc = "queued"}}

\* the injection_mode of a targeted reference row is changed after the trigger
ModeChanges ==
  /\ \A i \in 1..Len(refs) : refs[i].injection_mode = NewRef(raw[i]).injection_mode
  /\ \E i \in Targeted, mode \in {DIRECT_INJECTION, NullStr} :
       refs' = [refs EXCEPT ![i].injection_mode = mode]
  /\ UNCHANGED <<SyncFrame, results, nfail, lastRow, reply, jobs, run>>

\* the raw source no longer has the extracted text of a targeted row
TextRemoved ==
  /\ \A i \in 1..Len(raw) : raw[i].extracted_text # NullStr
  /\ \E i \in Targeted :
       raw' = [raw EXCEPT ![refs[i].raw_id].extracted_text = NullStr]
  /\ UNCHANGED <<configured, ckpt, daily, hourly, kbdaily, pc, Locals, result, pre,
                 nruns, syncs, refs, results, nfail, lastRow, reply, jobs, run>>

NextSkip ==
  \/ NextEval
  \/ ModeChanges
  \/ TextRemoved

SpecSkip == InitEval /\ [][NextSkip]_vars

\* C29: unevaluable rows are skipped.  When execute_evaluation handles a row
\* whose injection_mode is no longer rag_retrieval, or whose extracted text is
\* empty or missing, and the reads of the row did not raise, the row ends
\* skipped, no scorer ran, evaluation_results is unchanged, the job's failed
\* counter is unchanged and the loop is at the next row.
C29_SkippedRow ==
  lastRow.step \in {"mode", "text"} =>
     /\ refs[lastRow.id].evaluation_status = SKIPPED
     /\ lastRow.outcome = "returned"
     /\ lastRow.ret = NoOutcome
C29_SkipStep ==
  \A j \in DOMAIN jobs :
     (run[j].pc = "eval" /\ run'[j].idx = run[j].idx + 1) =>
        LET id == jobs[j].record_ids[run[j].idx]
            unevaluable ==
              \/ refs[id].injection_mode # RAG_RETRIEVAL
              \/ fetch_extracted_text(configured, raw, refs[id].raw_id) \in {"", NullStr}
        IN  (unevaluable /\ lastRow'.step \notin {"refetch", "raw"}) =>
               /\ lastRow'.step \in {"mode", "text"}
               /\ refs'[id].evaluation_status = SKIPPED
               /\ lastRow'.ret = NoOutcome
               /\ results' = results
               /\ jobs'[j].failed = jobs[j].failed
               /\ run'[j].pc = "eval"
C29_UnevaluableRowsSkipped ==
  /\ []C29_SkippedRow
  /\ [][C29_SkipStep]_vars
C29_Witness ==
  \E j \in DOMAIN jobs :
     /\ run[j].pc = "done"
     /\ jobs[j].total = 2
     /\ jobs[j].failed = 0
     /\ refs[jobs[j].record_ids[1]].injection_mode # RAG_RETRIEVAL
     /\ refs[jobs[j].record_ids[1]].evaluation_status = SKIPPED
     /\ raw[refs[jobs[j].record_ids[2]].raw_id].extracted_text = NullStr
     /\ refs[jobs[j].record_ids[2]].evaluation_status = SKIPPED
     /\ results = <<>>

\* ================================================ overlapping run_hourly_sync
\* The scheduled task and POST /sync/trigger each run run_hourly_sync on a
\* session of their own; the executions interleave at their awaits.  The
\* counter upserts of one execution are taken together: they do not touch the
\* checkpoint.
RECURSIVE HourlyAll(_, _, _)
HourlyAll(h, keys, recs) ==
  IF keys = <<>> THEN h
  ELSE HourlyAll(update_hourly_stats(h, keys[1][1], keys[1][2], InHour(recs, keys[1])),
                 Tail(keys), recs)
RECURSIVE DailyAll(_, _, _)
DailyAll(d, keys, recs) ==
  IF keys = <<>> THEN d
  ELSE DailyAll(update_daily_stats(d, keys[1], OnDate(recs, keys[1])), Tail(keys), recs)
RECURSIVE KbDailyAll(_, _, _)
KbDailyAll(k, keys, recs) ==
  IF keys = <<>> THEN k
  ELSE KbDailyAll(update_kb_daily_stats(k, keys[1], OnDate(recs, keys[1]),
                                        Range(KbIdsOf(OnDate(recs, keys[1])))),
                  Tail(keys), recs)

OverlapFrame == <<configured, pc, Locals, result, pre, nruns, evalVars>>

\* lines 397-400: the checkpoint read; when it raises, the handler's use of
\* last_raw_id raises in its turn
OStart(r) ==
  /\ syncs[r].pc = "idle"
  /\ \/ /\ syncs' = [syncs EXCEPT
                      ![r].pc = "fetch",
                      ![r].last_raw_id = get_checkpoint(ckpt, "hourly"),
                      ![r].seen = IF "hourly" \in DOMAIN ckpt
                                  THEN ckpt["hourly"].last_raw_id ELSE NullId]
        /\ UNCHANGED nfail
     \/ /\ CanRaise /\ nfail' = nfail + 1
        /\ syncs' = [syncs EXCEPT ![r].pc = "raised"]
  /\ UNCHANGED <<raw, Stores, OverlapFrame>>

\* lines 403-410
OFetch(r) ==
  /\ syncs[r].pc = "fetch"
  /\ LET recs == FetchIncremental(configured, raw, syncs[r].last_raw_id)
     IN  syncs' = [syncs EXCEPT
                     ![r].records = recs,
                     ![r].pc = IF recs = <<>> THEN "ckread" ELSE "check",
                     ![r].write = IF recs = <<>>
                                  THEN [raw_id |-> syncs[r].last_raw_id,
                                        status |-> "success", records_synced |-> 0,
                                        error_message |-> NullStr]
                                  ELSE NoWrite]
  /\ UNCHANGED <<raw, Stores, nfail, OverlapFrame>>

\* sync_records, lines 205-229: the existence selects and the rows added to the
\* session
OSyncCheck(r) ==
  /\ syncs[r].pc = "check"
  /\ syncs' = [syncs EXCEPT
                 ![r].fresh = SelectSeq(syncs[r].records, LAMBDA x : ~Exists(refs, x.id)),
                 ![r].pc = "commit"]
  /\ UNCHANGED <<raw, Stores, nfail, OverlapFrame>>

\* sync_records, line 232: the commit; a raw_id stored meanwhile violates the
\* unique column, nothing is inserted and the session needs a rollback, so the
\* handler's checkpoint call raises
OSyncCommit(r) ==
  /\ syncs[r].pc = "commit"
  /\ IF \E i \in 1..Len(syncs[r].fresh) : Exists(refs, syncs[r].fresh[i].id)
     THEN /\ syncs' = [syncs EXCEPT ![r].pc = "raised"]
          /\ UNCHANGED refs
     ELSE /\ refs' = sync_records(refs, syncs[r].fresh)
          /\ syncs' = [syncs EXCEPT ![r].inserted = Len(syncs[r].fresh),
                                    ![r].pc = "stats"]
  /\ UNCHANGED <<raw, ckpt, daily, hourly, kbdaily, nfail, OverlapFrame>>

\* lines 415-441: the counter upserts, each over its group of the fetched batch
OAggregate(r) ==
  /\ syncs[r].pc = "stats"
  /\ hourly' = HourlyAll(hourly, HourKeysOf(syncs[r].records), syncs[r].records)
  /\ daily' = DailyAll(daily, DateKeysOf(syncs[r].records), syncs[r].records)
  /\ kbdaily' = KbDailyAll(kbdaily, DateKeysOf(syncs[r].records), syncs[r].records)
  /\ syncs' = [syncs EXCEPT
                 ![r].pc = "ckread",
                 ![r].write = [raw_id |-> MaxId(syncs[r].records), status |-> "success",
                               records_synced |-> syncs[r].inserted,
                               error_message |-> NullStr]]
  /\ UNCHANGED <<raw, ckpt, refs, nfail, OverlapFrame>>

\* update_checkpoint, line 111: the select.  It gives the stored row, or what
\* the session already holds (an object loaded before and not expired, or the
\* snapshot of a transaction still open)
OCheckpointRead(r) ==
  /\ syncs[r].pc = "ckread"
  /\ \E seen \in {syncs[r].seen,
                  IF "hourly" \in DOMAIN ckpt THEN ckpt["hourly"].last_raw_id ELSE NullId} :
       syncs' = [syncs EXCEPT ![r].seen = seen, ![r].pc = "ckwrite"]
  /\ UNCHANGED <<raw, Stores, nfail, OverlapFrame>>

\* update_checkpoint, lines 113-130: with no row seen an INSERT, which the
\* unique sync_type rejects when a row exists; otherwise an UPDATE of the
\* columns whose value differs from the loaded one
OCheckpointWrite(r) ==
  /\ syncs[r].pc = "ckwrite"
  /\ LET w == syncs[r].write
         done == IF syncs[r].handler THEN "failed" ELSE "success"
     IN  IF syncs[r].seen = NullId
         THEN IF "hourly" \in DOMAIN ckpt
              THEN /\ syncs' = [syncs EXCEPT ![r].pc = "raised"]
                   /\ UNCHANGED ckpt
              ELSE /\ ckpt' = update_checkpoint(ckpt, "hourly", w.raw_id, w.status,
                                                w.records_synced, w.error_message)
                   /\ syncs' = [syncs EXCEPT ![r].pc = done, ![r].seen = w.raw_id]
         ELSE /\ ckpt' = [ckpt EXCEPT
                            !["hourly"] =
                              [last_raw_id |-> IF w.raw_id # syncs[r].seen
                                               THEN w.raw_id ELSE @.last_raw_id,
                               status |-> w.status,
                               records_synced |-> w.records_synced,
                               error_message |-> w.error_message]]
              /\ syncs' = [syncs EXCEPT ![r].pc = done, ![r].seen = w.raw_id]
  /\ UNCHANGED <<raw, refs, daily, hourly, kbdaily, nfail, OverlapFrame>>

\* an awaited operation of the try block raises (lines 460-463): the handler
\* calls update_checkpoint with the cursor the execution read, or cannot use
\* its session and raises
OFail(r) ==
  /\ syncs[r].pc \in {"fetch", "check", "commit", "stats", "ckread", "ckwrite"}
  /\ ~syncs[r].handler
  /\ CanRaise /\ nfail' = nfail + 1
  /\ \/ syncs' = [syncs EXCEPT
                    ![r].handler = TRUE,
                    ![r].pc = "ckread",
                    ![r].write = [raw_id |-> syncs[r].last_raw_id, status |-> "failed",
                                  records_synced |-> 0, error_message |-> SomeError]]
     \/ syncs' = [syncs EXCEPT ![r].pc = "raised"]
  /\ UNCHANGED <<raw, Stores, OverlapFrame>>

InitOverlap ==
  /\ configured = TRUE
  /\ raw = <<>>
  /\ ckpt = EmptyTable
  /\ refs = <<>>
  /\ daily = EmptyTable
  /\ hourly = EmptyTable
  /\ kbdaily = EmptyTable
  /\ pc = "idle"
  /\ last_raw_id = Unbound
  /\ records = <<>>
  /\ inserted = 0
  /\ skipped = 0
  /\ todoH = <<>>
  /\ todoD = <<>>
  /\ target_date = NullDate
  /\ result = NoResult
  /\ pre = NoSnapshot
  /\ nfail = 0
  /\ nruns = 0
  /\ results = <<>>
  /\ jobs = EmptyTable
  /\ run = EmptyTable
  /\ lastRow = NoLast
  /\ reply = NoReply
  /\ syncs = [r \in SyncIds |-> NoSync]

NextOverlap ==
  \/ AddRaw
  \/ \E r \in SyncIds : OStart(r)
  \/ \E r \in SyncIds : OFetch(r)
  \/ \E r \in SyncIds : OSyncCheck(r)
  \/ \E r \in SyncIds : OSyncCommit(r)
  \/ \E r \in SyncIds : OAggregate(r)
  \/ \E r \in SyncIds : OCheckpointRead(r)
  \/ \E r \in SyncIds : OCheckpointWrite(r)
  \/ \E r \in SyncIds : OFail(r)

SpecOverlap == InitOverlap /\ [][NextOverlap]_vars

\* C30: overlapping executions.  With two run_hourly_sync executions
\* interleaved in any way, no step lowers the last_raw_id of the 'hourly'
\* checkpoint, and when both have ended there is a row for 'hourly' (the table
\* holds one row per sync_type).
C30_CursorStep ==
  get_checkpoint(ckpt', "hourly") >= get_checkpoint(ckpt, "hourly")
C30_RowAtEnd ==
  (\A r \in SyncIds : syncs[r].pc \in {"success", "failed"}) => "hourly" \in DOMAIN ckpt
C30_OverlapKeepsCursor ==
  /\ []C30_RowAtEnd
  /\ [][C30_CursorStep]_vars

\* ===================================================== the fan-out of one row
\* SpecGather follows _evaluate_single_rag_record through its asyncio.gather:
\* the five awaitables are created by one call and end one by one, in any
\* order, each by a return or by an exception.

\* "\n".join of the chunk texts that are not empty (lines 225-228), kept as the
\* list of the parts joined
JoinChunks(chunks) == SelectSeq(chunks, LAMBDA c : c # "")

\* lines 205-228: user_prompt, extracted_text and assistant_answer of a row
RowInput(cfg, rawrows, rag_ref) ==
  LET raw_details == fetch_subtask_context_details(cfg, rawrows, {rag_ref.raw_id})
      type_data == IF rag_ref.raw_id \in DOMAIN raw_details
                   THEN raw_details[rag_ref.raw_id].type_data ELSE NoPayload
      extracted_text == fetch_extracted_text(cfg, rawrows, rag_ref.raw_id)
  IN  [query |-> type_data.query,
       text |-> extracted_text,
       answer |-> IF type_data.chunks # <<>> THEN JoinChunks(type_data.chunks)
                  ELSE <<extracted_text>>]

\* embedding_metrics_evaluator.evaluate_all has no answer parameter
NotPassed == <<"not passed">>

\* lines 245-268: the keyword arguments of the five calls (user_prompt, query
\* and question are `query` here; extracted_text, contexts and context are
\* `text`; assistant_answer and answer are `answer`)
ScorerArgs(inp) ==
  [s \in Scorers |->
     [query |-> inp.query, text |-> inp.text,
      answer |-> IF s = "ragas_emb" THEN NotPassed ELSE inp.answer]]

GatherRowTemplates ==
  { [subtask_id |-> 1, user_id |-> 1, context_type |-> "knowledge_base",
     type_data |-> RagPayload(7, "q1", <<>>),
     created_at |-> [date |-> 1, hour |-> 10], extracted_text |-> "text"],
    [subtask_id |-> 1, user_id |-> 1, context_type |-> "knowledge_base",
     type_data |-> RagPayload(7, "q2", <<"c1", "", "c2">>),
     created_at |-> [date |-> 2, hour |-> 10], extracted_text |-> "text"],
    [subtask_id |-> 1, user_id |-> 1, context_type |-> "knowledge_base",
     type_data |-> RagPayload(7, "q1", <<>>),
     created_at |-> [date |-> 1, hour |-> 10], extracted_text |-> ""] }

Done(task) == task \notin {"idle", "started"}

\* the scorers whose call may raise in SpecGather
RaisingScorers == {"ragas", "ragas_llm"}

\* lines 203-270: the inputs are read, pending is committed and gather is called
GatherStart(j) ==
  /\ j \in DOMAIN jobs
  /\ run[j].pc = "eval"
  /\ run[j].idx <= Len(jobs[j].record_ids)
  /\ LET id == jobs[j].record_ids[run[j].idx]
         inp == RowInput(configured, raw, refs[id])
     IN  /\ refs[id].injection_mode = RAG_RETRIEVAL
         /\ ~NoText(inp.text)
         /\ refs' = SetStatus(refs, id, PENDING)
         /\ run' = [run EXCEPT ![j].pc = "gather",
                               ![j].tasks = [s \in Scorers |-> "started"],
                               ![j].args = ScorerArgs(inp)]
  /\ UNCHANGED <<SyncFrame, results, jobs, nfail, lastRow, reply>>

\* lines 193-201 and 214-222: the row is skipped before any scorer is called
GatherSkip(j) ==
  /\ j \in DOMAIN jobs
  /\ run[j].pc = "eval"
  /\ run[j].idx <= Len(jobs[j].record_ids)
  /\ LET id == jobs[j].record_ids[run[j].idx]
     IN  /\ \/ refs[id].injection_mode # RAG_RETRIEVAL
            \/ NoText(fetch_extracted_text(configured, raw, refs[id].raw_id))
         /\ refs' = SetStatus(refs, id, SKIPPED)
         /\ Returns(j, id, IF refs[id].injection_mode # RAG_RETRIEVAL
                           THEN "mode" ELSE "text", NoOutcome)
  /\ UNCHANGED <<SyncFrame, results, nfail, reply>>

\* mutant: gather without return_exceptions: the first exception is raised to
\* the caller at once, while the other awaitables are still running
ScorerEnds_Propagates(j, s) ==
  /\ j \in DOMAIN jobs
  /\ run[j].pc = "gather"
  /\ run[j].tasks[s] = "started"
  /\ \/ /\ run' = [run EXCEPT ![j].tasks[s] = Score[s]]
        /\ UNCHANGED <<refs, jobs, lastRow>>
     \/ LET id == jobs[j].record_ids[run[j].idx]
        IN  /\ s \in RaisingScorers
            /\ refs' = SetStatus(refs, id, FAILED)
            /\ jobs' = Count(jobs, j, "raised")
            /\ run' = [run EXCEPT ![j].pc = "eval", ![j].idx = @ + 1,
                                  ![j].tasks = NoTasks, ![j].args = NoArgs]
            /\ lastRow' = [job |-> j, id |-> id, outcome |-> "raised",
                           step |-> "gather", ret |-> NoOutcome]
  /\ UNCHANGED <<SyncFrame, results, nfail, reply>>

\* one awaitable of the gather ends: it returns its metrics or raises; with
\* return_exceptions=True (line 269) the exception is kept as its result
ScorerEnds(j, s) ==
  /\ j \in DOMAIN jobs
  /\ run[j].pc = "gather"
  /\ run[j].tasks[s] = "started"
  /\ \E v \in {Score[s]} \cup (IF s \in RaisingScorers THEN {"raise"} ELSE {}) :
       run' = [run EXCEPT ![j].tasks[s] = v]
  /\ UNCHANGED <<SyncFrame, refs, results, jobs, nfail, lastRow, reply>>

\* lines 272-447: gather has returned the five results; they are reconciled
\* and the EvaluationResult is written, or a later step raises (lines 449-453)
Reconcile(j) ==
  /\ j \in DOMAIN jobs
  /\ run[j].pc = "gather"
  /\ \A s \in Scorers : Done(run[j].tasks[s])
  /\ LET id == jobs[j].record_ids[run[j].idx]
         ends(outcome, step, ret) ==
           /\ jobs' = Count(jobs, j, outcome)
           /\ run' = [run EXCEPT ![j].pc = "eval", ![j].idx = @ + 1,
                                 ![j].tasks = NoTasks, ![j].args = NoArgs]
           /\ lastRow' = [job |-> j, id |-> id, outcome |-> outcome,
                          step |-> step, ret |-> ret]
     IN  \/ /\ results' = UpsertResult(results, id, run[j].tasks)
            /\ refs' = [refs EXCEPT
                          ![id].evaluation_result_id = ResultId(results', id),
                          ![id].evaluation_status = COMPLETED]
            /\ ends("returned", "done", run[j].tasks)
            /\ UNCHANGED nfail
         \/ /\ CanRaise /\ nfail' = nfail + 1
            /\ \E usable \in BOOLEAN : refs' = FailRow(refs, id, usable)
            /\ ends("raised", "diag", NoOutcome)
            /\ UNCHANGED results
  /\ UNCHANGED <<SyncFrame, reply>>

InitGather ==
  /\ configured = TRUE
  /\ \E rows \in [1..MaxRefs -> GatherRowTemplates] :
       raw = [i \in 1..MaxRefs |-> WithId(rows[i], i)]
  /\ refs = sync_records(<<>>, raw)
  /\ ckpt = update_checkpoint(EmptyTable, "hourly", MaxRefs, "success", MaxRefs, NullStr)
  /\ daily = EmptyTable
  /\ hourly = EmptyTable
  /\ kbdaily = EmptyTable
  /\ pc = "idle"
  /\ last_raw_id = Unbound
  /\ records = <<>>
  /\ inserted = 0
  /\ skipped = 0
  /\ todoH = <<>>
  /\ todoD = <<>>
  /\ target_date = NullDate
  /\ result = NoResult
  /\ pre = NoSnapshot
  /\ nfail = 0
  /\ nruns = 0
  /\ results = <<>>
  /\ jobs = EmptyTable
  /\ run = EmptyTable
  /\ lastRow = NoLast
  /\ reply = NoReply
  /\ syncs = [r \in SyncIds |-> NoSync]

NextGather ==
  \/ Trigger
  \/ \E j \in JobIds : Execute(j)
  \/ \E j \in JobIds : GatherStart(j)
  \/ \E j \in JobIds : GatherSkip(j)
  \/ \E j \in JobIds, s \in Scorers : ScorerEnds(j, s)
  \/ \E j \in JobIds : Reconcile(j)
  \/ \E j \in JobIds : Finish(j)

SpecGather == InitGather /\ [][NextGather]_vars

\* C31: the fan-out of one row.  While a row is in its gather, all five scorers
\* have been started and every argument a scorer was called with is the row's
\* query, extracted text or candidate answer.  The row leaves the gather only
\* when every scorer has returned or raised, and the result then written holds
\* what each scorer gave; a scorer that ends changes nothing of its siblings.
\* The rows of a job are handled one at a time in the order of record_ids.
C31_SameInput ==
  \A j \in DOMAIN run :
    run[j].pc = "gather" =>
      LET inp == RowInput(configured, raw, refs[jobs[j].record_ids[run[j].idx]])
      IN  \A s \in Scorers :
            /\ run[j].tasks[s] # "idle"
            /\ run[j].args[s].query = inp.query
            /\ run[j].args[s].text = inp.text
            /\ run[j].args[s].answer \in {inp.answer, NotPassed}
C31_GatherStep ==
  \A j \in DOMAIN run :
    LET id == jobs[j].record_ids[run[j].idx]
    IN  run[j].pc = "gather" =>
          IF run'[j].pc = "gather"
          THEN \A s \in Scorers :
                 /\ Done(run[j].tasks[s]) => run'[j].tasks[s] = run[j].tasks[s]
                 /\ run'[j].tasks[s] # "idle"
          ELSE /\ \A s \in Scorers : Done(run[j].tasks[s])
               /\ refs'[id].evaluation_status = COMPLETED =>
                    results'[ResultId(results', id)].scores = ScoredFields(run[j].tasks)
C31_OrderStep ==
  /\ \A j \in DOMAIN run :
       /\ run'[j].idx \in {run[j].idx, run[j].idx + 1}
       /\ run'[j].idx = run[j].idx + 1 =>
            /\ lastRow'.job = j
            /\ lastRow'.id = jobs[j].record_ids[run[j].idx]
  /\ \A i \in 1..Len(refs) :
       refs'[i] # refs[i] =>
         \E j \in DOMAIN run :
           /\ run[j].pc \in {"eval", "gather"}
           /\ run[j].idx <= Len(jobs[j].record_ids)
           /\ jobs[j].record_ids[run[j].idx] = i
C31_FanOut ==
  /\ []C31_SameInput
  /\ [][C31_GatherStep /\ C31_OrderStep]_vars
\* a job has scored its first row of two although one scorer raised before
\* another returned, and is in the gather of its second row
C31_Witness ==
  \E j \in DOMAIN run :
    /\ run[j].pc = "gather"
    /\ run[j].idx = 2
    /\ lastRow.job = j /\ lastRow.step = "done"
    /\ lastRow.ret["ragas"] = "raise"
    /\ lastRow.ret["trulens_llm"] = Score["trulens_llm"]
    /\ refs[jobs[j].record_ids[1]].evaluation_status = COMPLETED
    /\ run[j].tasks["ragas_llm"] = "raise"
    /\ run[j].tasks["ragas"] = "started"

\* ============================================ sync runs beside evaluation jobs
\* SpecBoth: the scheduler's sync runs and the evaluation background tasks
\* share the reference store and interleave at their awaits.  It starts with
\* one raw row already mirrored; the raw source may receive another.
InitBoth ==
  /\ configured = TRUE
  /\ \E t \in EvalRowTemplates : raw = <<WithId(t, 1)>>
  /\ refs = sync_records(<<>>, raw)
  /\ ckpt = update_checkpoint(EmptyTable, "hourly", 1, "success", 1, NullStr)
  /\ daily = EmptyTable
  /\ hourly = EmptyTable
  /\ kbdaily = EmptyTable
  /\ pc = "idle"
  /\ last_raw_id = Unbound
  /\ records = <<>>
  /\ inserted = 0
  /\ skipped = 0
  /\ todoH = <<>>
  /\ todoD = <<>>
  /\ target_date = NullDate
  /\ result = NoResult
  /\ pre = NoSnapshot
  /\ nfail = 0
  /\ nruns = 0
  /\ results = <<>>
  /\ jobs = EmptyTable
  /\ run = EmptyTable
  /\ lastRow = NoLast
  /\ reply = NoReply
  /\ syncs = [r \in SyncIds |-> NoSync]

\* one job, whose scorers all behave (the scores play no part here)
NextBoth ==
  \/ Next
  \/ jobs = EmptyTable /\ Trigger
  \/ \E j \in JobIds : Execute(j)
  \/ \E j \in JobIds : EvaluateRow(j) /\ lastRow'.ret \in {NoOutcome, Score}
  \/ \E j \in JobIds : Finish(j)

SpecBoth == InitBoth /\ [][NextBoth]_vars

\* C32: disjoint fields.  No step removes a reference row or changes its
\* raw_id, knowledge_id, context_type, injection_mode or record_date; a step
\* of an evaluation job adds no row; a step of a sync run (hourly or daily)
\* leaves evaluation_status and evaluation_result_id of every existing row as
\* they were, also while a job is evaluating that row.
ClassificationOf(r) ==
  <<r.raw_id, r.knowledge_id, r.context_type, r.injection_mode, r.record_date>>
EvaluationOf(r) == <<r.evaluation_status, r.evaluation_result_id>>
EvalStep == jobs' # jobs \/ run' # run \/ results' # results
C32_ClassificationStep ==
  /\ Len(refs') >= Len(refs)
  /\ \A i \in 1..Len(refs) : ClassificationOf(refs'[i]) = ClassificationOf(refs[i])
  /\ EvalStep => Len(refs') = Len(refs)
C32_EvaluationStep ==
  ~EvalStep => \A i \in 1..Len(refs) : EvaluationOf(refs'[i]) = EvaluationOf(refs[i])
C32_DisjointFields == [][C32_ClassificationStep /\ C32_EvaluationStep]_vars
\* a job has completed row 1 and is still running while a sync run that has
\* just stored a second row is between its awaits
C32_Witness ==
  /\ pc \in {"hourly", "daily", "kbdaily", "ckpt"}
  /\ Len(refs) = 2
  /\ refs[1].evaluation_status = COMPLETED
  /\ \E j \in DOMAIN run : run[j].pc = "eval" /\ lastRow.job = j /\ lastRow.id = 1

\* C33: the frame of a recompute.  From its start to its return, a
\* run_daily_sync for date d leaves the 'hourly' checkpoint, every hourly row
\* and every reference row as they were, changes no daily row of another date,
\* adds or removes no kb-daily row, changes no count of a kb-daily row and
\* nothing at all of a kb-daily row of another date.
KbCounts(r) == <<r.total_queries, r.rag_retrieval_count, r.direct_injection_count,
                 r.selected_documents_count>>
C33_RecomputeStep ==
  (target_date # NullDate \/ target_date' # NullDate) =>
    LET d == IF target_date # NullDate THEN target_date ELSE target_date'
    IN  /\ ("hourly" \in DOMAIN ckpt') = ("hourly" \in DOMAIN ckpt)
        /\ "hourly" \in DOMAIN ckpt => ckpt'["hourly"] = ckpt["hourly"]
        /\ hourly' = hourly
        /\ refs' = refs
        /\ DOMAIN daily \subseteq DOMAIN daily'
        /\ DOMAIN daily' \subseteq DOMAIN daily \cup {d}
        /\ \A x \in DOMAIN daily : x # d => daily'[x] = daily[x]
        /\ DOMAIN kbdaily' = DOMAIN kbdaily
        /\ \A x \in DOMAIN kbdaily :
             /\ KbCounts(kbdaily'[x]) = KbCounts(kbdaily[x])
             /\ x[1] # d => kbdaily'[x] = kbdaily[x]
C33_RecomputeFrame == [][C33_RecomputeStep]_vars
\* a recompute has succeeded that rewrote the daily row of its date and a
\* knowledge base name, with rows of the other date and hourly rows in store
C33_Witness ==
  /\ pc = "ret"
  /\ target_date # NullDate
  /\ result.status = "success"
  /\ pre.daily # daily
  /\ pre.kbdaily # kbdaily
  /\ hourly # EmptyTable
  /\ \E x \in DOMAIN kbdaily : x[1] # target_date
  /\ \E x \in DOMAIN daily : x # target_date
  /\ get_checkpoint(ckpt, "hourly") > 0

\* ======================================================= draining a backlog
\* SpecBacklog: the raw source holds Backlog rows, more than one page, and
\* receives no more; run_hourly_sync is invoked again and again and no
\* operation raises.
Backlog == limit + 1

InitBacklog ==
  /\ configured = TRUE
  /\ \E rows \in [1..Backlog -> RowTemplates] :
       raw = [i \in 1..Backlog |->
                [id |-> i, subtask_id |-> rows[i].subtask_id,
                 user_id |-> rows[i].user_id, context_type |-> rows[i].context_type,
                 type_data |-> rows[i].type_data, created_at |-> rows[i].created_at,
                 extracted_text |-> "text"]]
  /\ ckpt = EmptyTable
  /\ refs = <<>>
  /\ daily = EmptyTable
  /\ hourly = EmptyTable
  /\ kbdaily = EmptyTable
  /\ pc = "idle"
  /\ last_raw_id = Unbound
  /\ records = <<>>
  /\ inserted = 0
  /\ skipped = 0
  /\ todoH = <<>>
  /\ todoD = <<>>
  /\ target_date = NullDate
  /\ result = NoResult
  /\ pre = NoSnapshot
  /\ nfail = 0
  /\ nruns = 0
  /\ results = <<>>
  /\ jobs = EmptyTable
  /\ run = EmptyTable
  /\ lastRow = NoLast
  /\ reply = NoReply
  /\ syncs = [r \in SyncIds |-> NoSync]

\* the steps of a run in which nothing raises
RunStep ==
  \/ HourlyBegin /\ UNCHANGED nruns
  \/ Fetch
  \/ NoopCheckpoint
  \/ SyncRecords
  \/ UpdateHourly
  \/ UpdateDaily
  \/ UpdateKbDaily
  \/ SuccessCheckpoint
  \/ Return

NextBacklog == RunStep /\ nfail' = nfail

SpecBacklog == InitBacklog /\ [][NextBacklog]_vars

\* the scheduler starts a run every hour and every awaited operation ends
SpecBacklogFair == SpecBacklog /\ WF_vars(NextBacklog)

\* C34: draining.  With no new raw rows and no failure, repeated
\* run_hourly_sync runs mirror the eligible rows page by page in ascending id
\* order (the reference store is always a prefix of the eligible rows), and
\* from some point on every eligible row is mirrored and every run that
\* returns reports records_synced = 0 and leaves the cursor where it was.
EligibleRows == SelectSeq(raw, Eligible)
C34_Prefix ==
  /\ Len(refs) <= Len(EligibleRows)
  /\ \A i \in 1..Len(refs) : refs[i].raw_id = EligibleRows[i].id
C34_Drained ==
  /\ Len(refs) = Len(EligibleRows)
  /\ pc = "ret" => /\ result.status = "success"
                   /\ result.records_synced = 0
                   /\ get_checkpoint(ckpt, "hourly") = pre.cursor
C34_BacklogDrains == []C34_Prefix /\ <>[]C34_Drained
\* a run reports nothing to do after earlier runs mirrored more than one page
C34_Witness ==
  /\ pc = "ret"
  /\ result.status = "success"
  /\ result.records_synced = 0
  /\ Len(refs) > limit
  /\ Len(refs) = Len(EligibleRows)
  /\ get_checkpoint(ckpt, "hourly") = refs[Len(refs)].raw_id

\* C35: additive and recomputed counts agree.  As long as no operation has
\* raised (so no run failed or was retried and every raw row was fetched
\* once), between runs the rag_retrieval, direct_injection and
\* selected_documents counts of every daily_stats row are those the recompute
\* derives from the reference rows of that date, and a recalculate_daily_stats
\* step leaves the three counts of its date as they were.
C35_AdditiveMatchesScan ==
  (nfail = 0 /\ pc \in {"idle", "ret"}) =>
    \A d \in Dates :
      ModesOf(daily, d) = ModesOf(recalculate_daily_stats(daily, refs, d), d)
C35_RecomputeStep ==
  (nfail = 0 /\ nfail' = 0 /\ pc = "recalc") =>
    ModesOf(daily', target_date) = ModesOf(daily, target_date)
C35_RecomputeChangesNoCount ==
  /\ []C35_AdditiveMatchesScan
  /\ [][C35_RecomputeStep]_vars
\* the second of two successful incremental runs has added its row to the
\* counts the first had stored for the same date
C35_Witness ==
  /\ nfail = 0
  /\ Returned("success") /\ HourlyRun
  /\ Len(refs) = 2 /\ Len(pre.refs) = 1
  /\ refs[1].record_date = refs[2].record_date
  /\ refs[1].injection_mode = RAG_RETRIEVAL
  /\ refs[2].injection_mode = RAG_RETRIEVAL
  /\ daily[refs[1].record_date].rag_retrieval_count = 2

\* C36: no row left pending.  When a job has status completed, every reference
\* row of its record_ids has evaluation_status completed, failed or skipped.
C36_NoRowLeftPending ==
  \A j \in DOMAIN jobs :
    jobs[j].status = "completed" =>
      \A k \in 1..Len(jobs[j].record_ids) :
        refs[jobs[j].record_ids[k]].evaluation_status \in {COMPLETED, FAILED, SKIPPED}

\* ================================================== jobs running side by side
\* SpecRace: every POST /trigger adds its own background task with its own
\* session, so two jobs interleave at their awaits.  A row is followed through
\* two steps: up to the select of its EvaluationResult (lines 184-370), and
\* from there to the commit (lines 372-439).  The evaluation_results table is
\* keyed by id; the scorers all behave.
PersistSelect(j) ==
  /\ j \in DOMAIN jobs
  /\ run[j].pc = "eval"
  /\ run[j].idx <= Len(jobs[j].record_ids)
  /\ LET id == jobs[j].record_ids[run[j].idx]
         found == ResultsOf(results, id)
     IN  /\ refs[id].injection_mode = RAG_RETRIEVAL
         /\ ~NoText(fetch_extracted_text(configured, raw, refs[id].raw_id))
         /\ IF Cardinality(found) > 1
            THEN \* scalar_one_or_none raises MultipleResultsFound
                 /\ refs' = SetStatus(refs, id, FAILED)
                 /\ Raises(j, id, "persist", NoOutcome)
            ELSE /\ refs' = SetStatus(refs, id, PENDING)
                 /\ run' = [run EXCEPT
                              ![j].pc = "persist",
                              ![j].evaluation = IF found = {} THEN NullId
                                                ELSE CHOOSE k \in found : TRUE]
                 /\ UNCHANGED <<jobs, lastRow>>
  /\ UNCHANGED <<SyncFrame, results, nfail, reply>>

PersistWrite(j) ==
  /\ j \in DOMAIN jobs
  /\ run[j].pc = "persist"
  /\ LET id == jobs[j].record_ids[run[j].idx]
         evaluation == IF run[j].evaluation = NullId THEN Len(results) + 1
                       ELSE run[j].evaluation
     IN  /\ results' = IF run[j].evaluation = NullId
                       THEN Append(results, [rag_record_ref_id |-> id,
                                             scores |-> ScoredFields(Score)])
                       ELSE [results EXCEPT ![evaluation].scores = ScoredFields(Score)]
         /\ refs' = [refs EXCEPT ![id].evaluation_result_id = evaluation,
                                 ![id].evaluation_status = COMPLETED]
         /\ jobs' = Count(jobs, j, "returned")
         /\ run' = [run EXCEPT ![j].pc = "eval", ![j].idx = @ + 1,
                               ![j].evaluation = NullId]
         /\ lastRow' = [job |-> j, id |-> id, outcome |-> "returned",
                        step |-> "done", ret |-> Score]
  /\ UNCHANGED <<SyncFrame, nfail, reply>>

NextRace ==
  \/ TriggerEvaluation
  \/ \E j \in JobIds : Execute(j)
  \/ \E j \in JobIds : GatherSkip(j)
  \/ \E j \in JobIds : PersistSelect(j)
  \/ \E j \in JobIds : PersistWrite(j)
  \/ \E j \in JobIds : Finish(j)

SpecRace == InitEval /\ [][NextRace]_vars

\* C37: one result under concurrent jobs.  With two jobs that target the same
\* reference row running side by side, the row never has two EvaluationResult
\* records, and once both jobs are done the evaluation_result_id of a completed
\* row is the id of its only result.
C37_OneResultUnderRace ==
  \A i \in 1..Len(refs) :
    /\ Cardinality(ResultsOf(results, i)) <= 1
    /\ ( /\ \A j \in DOMAIN jobs : run[j].pc = "done"
         /\ refs[i].evaluation_status = COMPLETED )
       => ResultsOf(results, i) = {refs[i].evaluation_result_id}

\* C38: completed rows are linked.  A reference row whose evaluation_status is
\* completed has an evaluation_result_id that is the id of an existing
\* EvaluationResult whose rag_record_ref_id is that row; and a step that makes
\* a row completed is the step that wrote its link, and the result linked then
\* holds the scores of that evaluation.
LinkedToResult(rs, res, i) ==
  /\ rs[i].evaluation_result_id \in 1..Len(res)
  /\ res[rs[i].evaluation_result_id].rag_record_ref_id = i
C38_CompletedIsLinked ==
  \A i \in 1..Len(refs) :
    refs[i].evaluation_status = COMPLETED => LinkedToResult(refs, results, i)
C38_CompleteStep ==
  \A i \in 1..Len(refs) :
    (refs'[i].evaluation_status = COMPLETED /\ refs'[i] # refs[i]) =>
      /\ LinkedToResult(refs', results', i)
      /\ lastRow'.id = i /\ lastRow'.step = "done"
      /\ results'[refs'[i].evaluation_result_id].scores = ScoredFields(lastRow'.ret)
C38_CompletedHasResult ==
  /\ []C38_CompletedIsLinked
  /\ [][C38_CompleteStep]_vars
\* both rows are completed and linked, the second one by a second execution
\* of its job after a first one that failed on it
C38_Witness ==
  /\ Len(refs) = 2 /\ Len(results) = 2
  /\ refs[1].evaluation_status = COMPLETED
  /\ refs[2].evaluation_status = COMPLETED
  /\ refs[1].evaluation_result_id # refs[2].evaluation_result_id
  /\ \E j \in DOMAIN run : run[j].execs = 2 /\ lastRow.job = j /\ lastRow.step = "done"
  /\ nfail = 1

====
